---- MODULE Spec2Model ----
(***************************************************************************)
(* tryexpand: the test suite, the per-test snapshot state machine          *)
(* (src/src/test.rs, src/src/test_suite.rs), the command layer             *)
(* (src/src/cargo.rs) and the output normalisation it relies on.           *)
(*                                                                         *)
(* Texts are sequences of symbols.  A symbol is one character, except      *)
(* that "E" stands for the sentinel `error:` / `error[` at the place it    *)
(* occurs.  Option<T> is a sequence of length 0 (None) or 1 (Some).        *)
(***************************************************************************)
EXTENDS Integers, Sequences, FiniteSets, TLC

VARIABLES
    tryexpandEnv,    \* value of the TRYEXPAND variable, Option<string>
    truncateEnv,     \* value of the truncate-output variable, Option<string>
    keepEnv,         \* value of the keep-artifacts variable, Option<text>
    target,          \* the build area: directory -> [owner]
    files,           \* snapshot files on disk: path -> bytes (sparse)
    pc,              \* "idle" | "built" | "running" | "passed" | "panicked"
    suite,           \* the TestSuite value (plan, options, tests, wrapper)
    idx,             \* try_run: index of the next test of suite.tests
    failures,        \* try_run: HashSet of failed test paths
    command_errors,  \* try_run: number of command errors so far
    panicMsg,        \* the panic the process died of, Option<record>
    last,            \* what the last Test::run did (report, io, outcomes)
    ran,             \* the test paths run so far in this suite run
    produced,        \* tests for which the observer got a failing outcome
    errored,         \* tests whose Test::run returned an error
    written,         \* snapshot paths written so far
    faults,          \* number of tests that met a failure of the system
    runNo,           \* number of the suite run in progress (1 or 2)
    tool,            \* what the compiler makes of each source file
    cmp,             \* state of the comparator harness (SpecCmp)
    par,             \* state of the suites that run side by side (SpecPar)
    asked            \* the arguments of the last call of TestSuite::new

vars == <<tryexpandEnv, truncateEnv, keepEnv, target, files, pc, suite, idx,
          failures, command_errors, panicMsg, last, ran, produced, errored,
          written, faults, runNo, tool, cmp, par, asked>>

-----------------------------------------------------------------------------
(* Option<T> *)

\* the only element of a set of one element; The({e(v) : v \in {x}}) is
\* e with x computed once
The(S) == CHOOSE x \in S : TRUE

None == <<>>
Some(x) == <<x>>
IsSome(o) == o # <<>>
IsNone(o) == o = <<>>
Unwrap(o) == o[1]

-----------------------------------------------------------------------------
(* Texts: str::trim, str::lines, joins.                                    *)

NL == "\n"
CR == "\r"
SP == " "

\* char::is_whitespace, for the symbols of the model
IsWhitespace(c) == c \in {SP, NL, CR}

RECURSIVE TrimStart(_)
TrimStart(s) ==
    IF s = <<>> THEN <<>>
    ELSE IF IsWhitespace(Head(s)) THEN TrimStart(Tail(s)) ELSE s

RECURSIVE TrimEnd(_)
TrimEnd(s) ==
    IF s = <<>> THEN <<>>
    ELSE IF IsWhitespace(s[Len(s)]) THEN TrimEnd(SubSeq(s, 1, Len(s) - 1)) ELSE s

\* str::trim
Trim(s) == TrimEnd(TrimStart(s))

\* position of the first "\n" of s, 0 when there is none
RECURSIVE FirstNL(_, _)
FirstNL(s, i) ==
    IF i > Len(s) THEN 0
    ELSE IF s[i] = NL THEN i ELSE FirstNL(s, i + 1)

\* str::lines: split_inclusive('\n'); of a piece that ends in "\n" the "\n"
\* and then one "\r" are stripped; a last piece without "\n" is kept as is.
RECURSIVE Lines(_)
Lines(s) ==
    IF s = <<>> THEN <<>>
    ELSE LET n == FirstNL(s, 1) IN
         IF n = 0 THEN <<s>>
         ELSE LET body == SubSeq(s, 1, n - 1)
                  line == IF body # <<>> /\ body[Len(body)] = CR
                          THEN SubSeq(body, 1, Len(body) - 1)
                          ELSE body
              IN  <<line>> \o Lines(SubSeq(s, n + 1, Len(s)))

\* [&str]::join("\n")
RECURSIVE JoinNL(_)
JoinNL(ls) ==
    IF ls = <<>> THEN <<>>
    ELSE IF Len(ls) = 1 THEN ls[1]
    ELSE ls[1] \o <<NL>> \o JoinNL(Tail(ls))

-----------------------------------------------------------------------------
(* cargo.rs: classification of the lines of the tool's log.                *)
(* "E" is `error:` or `error[`, "O" the whole line `error: could not       *)
(* compile ... due to previous error`, "W" is `warning:`, "F" is           *)
(* `test result: FAILED.`, "P" a line of the prelude of an expansion.      *)

line_should_be_omitted(line) == Trim(line) = <<"O">>

line_is_warning(line) == LET l == Trim(line) IN l # <<>> /\ Head(l) = "W"

line_is_error(line) == LET l == Trim(line) IN l # <<>> /\ Head(l) \in {"E", "O"}

\* the closure of cargo::test: line.starts_with("test result: FAILED.")
line_is_test_failure(line) == line # <<>> /\ Head(line) = "F"

AnyLine(ls, P(_)) == \E i \in 1..Len(ls) : P(ls[i])

-----------------------------------------------------------------------------
(* normalization/utils.rs, normalization/{expand,check,test,run}.rs        *)

ensure_trailing_newline(input) ==
    IF input # <<>> /\ input[Len(input)] = NL THEN input ELSE Append(input, NL)

is_empty_or_only_whitespace(string) ==
    \A i \in 1..Len(string) : IsWhitespace(string[i])

post_process(input) ==
    IF is_empty_or_only_whitespace(input) THEN None
    ELSE Some(ensure_trailing_newline(input))

\* .skip_while(|line| !line_is_error(line))
RECURSIVE SkipToError(_)
SkipToError(ls) ==
    IF ls = <<>> THEN <<>>
    ELSE IF line_is_error(Head(ls)) THEN ls ELSE SkipToError(Tail(ls))

\* .filter(!line_should_be_omitted).filter(!line_is_warning)
RECURSIVE FilterLog(_)
FilterLog(ls) ==
    IF ls = <<>> THEN <<>>
    ELSE IF line_should_be_omitted(Head(ls)) \/ line_is_warning(Head(ls))
         THEN FilterLog(Tail(ls))
         ELSE <<Head(ls)>> \o FilterLog(Tail(ls))

\* the items of the prelude are dropped and the file is printed again, one
\* item a line; a text without prelude is returned as it is
RECURSIVE UnparseWithoutPrelude(_)
UnparseWithoutPrelude(ls) ==
    IF ls = <<>> THEN <<>>
    ELSE IF Head(ls) = <<"P">> THEN UnparseWithoutPrelude(Tail(ls))
    ELSE Head(ls) \o <<NL>> \o UnparseWithoutPrelude(Tail(ls))

strip_prelude(input) ==
    IF AnyLine(Lines(input), LAMBDA l : l = <<"P">>)
    THEN UnparseWithoutPrelude(Lines(input))
    ELSE input

\* the placeholders that stand for the strings of the project
BIN == "<BIN>"
CRATE == "<CRATE>"
TIME == "<TIME>"

\* str::replace: the matches of `from`, found from the left and not
\* overlapping, are replaced by `to`
RECURSIVE replace(_, _, _)
replace(string, from, to) ==
    IF from = <<>>
    THEN to \o (IF string = <<>> THEN <<>>
                ELSE <<Head(string)>> \o replace(Tail(string), from, to))
    ELSE IF Len(string) < Len(from) THEN string
    ELSE IF SubSeq(string, 1, Len(from)) = from
    THEN to \o replace(SubSeq(string, Len(from) + 1, Len(string)), from, to)
    ELSE <<Head(string)>> \o replace(Tail(string), from, to)

\* replacements that take the crate name before the build target
replacements_name_first(project, test) ==
    << <<project.name, <<CRATE>> >>, <<test.bin, <<BIN>> >>, <<project.manifest_dir, <<>> >> >>

project_info_replacements(project, test) ==
    << <<test.bin, <<BIN>> >>, <<project.name, <<CRATE>> >>, <<project.manifest_dir, <<>> >> >>

\* the fold of str::replace over the replacements, in their order
RECURSIVE apply_replacements(_, _)
apply_replacements(string, replacements) ==
    IF replacements = <<>> THEN string
    ELSE apply_replacements(replace(string, Head(replacements)[1], Head(replacements)[2]),
                            Tail(replacements))

\* .map(|line| apply_replacements(line, replacements)) over the lines
ReplaceInLines(ls, replacements) ==
    [i \in 1..Len(ls) |-> apply_replacements(ls[i], replacements)]

\* test::stdout: on a line that begins with `test result:` ("R", or "F" for
\* `test result: FAILED.`) the regex `; finished in .+$` ("T" and at least
\* one more symbol, up to the end of the line) becomes `; finished in <TIME>`
normalize_time(line) ==
    LET l == Trim(line)
        at == {i \in 1..(Len(line) - 1) : line[i] = "T"}
    IN  IF l # <<>> /\ Head(l) \in {"R", "F"} /\ at # {}
        THEN SubSeq(line, 1, CHOOSE i \in at : \A j \in at : i <= j) \o <<TIME>>
        ELSE line

expand_stdout(input, project, test) == post_process(strip_prelude(input))

expand_stderr(input, project, test) ==
    post_process(JoinNL(ReplaceInLines(FilterLog(SkipToError(Lines(Trim(input)))),
                                       project_info_replacements(project, test))))

check_stdout(input, project, test) == None

check_stderr(input, project, test) ==
    post_process(JoinNL(ReplaceInLines(FilterLog(SkipToError(Lines(Trim(input)))),
                                       project_info_replacements(project, test))))

test_stdout(input, project, test) ==
    post_process(JoinNL(ReplaceInLines([i \in 1..Len(Lines(Trim(input))) |->
                                           normalize_time(Lines(Trim(input))[i])],
                                       project_info_replacements(project, test))))

test_stderr(input, project, test) ==
    post_process(JoinNL(ReplaceInLines(Lines(Trim(input)),
                                       project_info_replacements(project, test))))

run_stdout(input, project, test) == post_process(input)

run_stderr(input, project, test) ==
    post_process(JoinNL(ReplaceInLines(Lines(Trim(input)),
                                       project_info_replacements(project, test))))

-----------------------------------------------------------------------------
(* test.rs: the enums, TestStatus, TestReport, TestOutcome                 *)

Action == {"Expand", "Check", "Test", "Run"}
PostAction == {"Check", "Test", "Run"}
TestBehavior == {"OverwriteFiles", "ExpectFiles"}
TestStatus == {"Success", "Failure"}

\* TestStatus::success / TestStatus::failure
success(flag) == IF flag THEN "Success" ELSE "Failure"
failure(flag) == success(~flag)

\* impl BitAnd for TestStatus
BitAnd(lhs, rhs) ==
    IF lhs = "Success" /\ rhs = "Success" THEN "Success" ELSE "Failure"

\* TestReport::evaluation; post_action is an Option<ActionOutput>
evaluation(report) ==
    IF IsSome(report.post_action)
    THEN BitAnd(report.action.evaluation, Unwrap(report.post_action).evaluation)
    ELSE report.action.evaluation

\* TestOutcome::as_status, on the kind of the outcome
as_status(kind) ==
    IF kind \in {"SnapshotMatch", "SnapshotCreated", "SnapshotUpdated"}
    THEN "Success" ELSE "Failure"

-----------------------------------------------------------------------------
(* cargo.rs: the four commands.  io is what the process did:               *)
(* [spawned, status, stdout, stderr], the streams as bytes.                *)

\* a byte that is no valid UTF-8, and what String::from_utf8_lossy makes of it
BAD == "X"
REPLACEMENT == "?"

\* a decoding that also replaces the carriage returns
from_utf8_lossy_cr(bytes) ==
    [i \in 1..Len(bytes) |-> IF bytes[i] \in {BAD, CR} THEN REPLACEMENT ELSE bytes[i]]

from_utf8_lossy(bytes) ==
    [i \in 1..Len(bytes) |-> IF bytes[i] = BAD THEN REPLACEMENT ELSE bytes[i]]

\* str::as_bytes (utils::write hands the text to fs::write)
as_bytes(text) == text

Ok(v) == [ok |-> TRUE, val |-> v]
Err(e) == [ok |-> FALSE, err |-> e]

\* the Project and the Test of the commands of the suite: the name of the
\* synthesized crate, the directory of the host's manifest, the build
\* target of the test
HostProject == [name |-> <<"host", "_", "a">>, manifest_dir |-> <<"/", "host">>]
HostTest == [bin |-> <<"host", "_", "a", "_", "t">>]

run_cargo_command(io) ==
    IF ~io.spawned THEN Err("CargoExpandExecution")
    ELSE Ok([stdout |-> Some(from_utf8_lossy(io.stdout)),
             stderr |-> Some(from_utf8_lossy(io.stderr)),
             evaluation |-> success(io.status = 0)])

\* Option::and_then with a one-place normalisation
AndThen(o, F(_)) == IF IsSome(o) THEN F(Unwrap(o)) ELSE None

expand(io) ==
    The({ IF ~r.ok THEN r
          ELSE The({ Ok([stdout |-> AndThen(r.val.stdout, LAMBDA text : expand_stdout(text, HostProject, HostTest)),
                         stderr |-> stderr,
                         evaluation |->
                            IF r.val.evaluation = "Success" /\ IsSome(stderr)
                            THEN failure(AnyLine(Lines(Unwrap(stderr)), line_is_error))
                            ELSE r.val.evaluation])
                     : stderr \in {AndThen(r.val.stderr, LAMBDA text : expand_stderr(text, HostProject, HostTest))} })
          : r \in {run_cargo_command(io)} })

check(io) ==
    The({ IF ~r.ok THEN r
          ELSE Ok([stdout |-> AndThen(r.val.stdout, LAMBDA text : check_stdout(text, HostProject, HostTest)),
                   stderr |-> AndThen(r.val.stderr, LAMBDA text : check_stderr(text, HostProject, HostTest)),
                   evaluation |-> r.val.evaluation])
          : r \in {run_cargo_command(io)} })

test(io) ==
    The({ IF ~r.ok THEN r
          ELSE The({ Ok([stdout |-> AndThen(r.val.stdout, LAMBDA text : test_stdout(text, HostProject, HostTest)),
                         stderr |-> stderr,
                         evaluation |->
                            IF r.val.evaluation = "Success" /\ IsSome(stderr)
                            THEN failure(AnyLine(Lines(Unwrap(stderr)),
                                                 line_is_test_failure))
                            ELSE r.val.evaluation])
                     : stderr \in {AndThen(r.val.stderr, LAMBDA text : test_stderr(text, HostProject, HostTest))} })
          : r \in {run_cargo_command(io)} })

run(io) ==
    The({ IF ~r.ok THEN r
          ELSE Ok([stdout |-> AndThen(r.val.stdout, LAMBDA text : run_stdout(text, HostProject, HostTest)),
                   stderr |-> AndThen(r.val.stderr, LAMBDA text : run_stderr(text, HostProject, HostTest)),
                   evaluation |-> r.val.evaluation])
          : r \in {run_cargo_command(io)} })

\* the dispatch of Test::run on Action / PostAction
cargo_command(action, io) ==
    CASE action = "Expand" -> expand(io)
      [] action = "Check" -> check(io)
      [] action = "Test" -> test(io)
      [] OTHER -> run(io)

-----------------------------------------------------------------------------
(* Paths and the disk.  A path is the sequence of the dot-separated parts  *)
(* of a file name, <<"a", "rs">> for a.rs; all files are in one directory. *)

OUT_RS_FILE_SUFFIX == <<"out", "rs">>
OUT_TXT_FILE_SUFFIX == <<"out", "txt">>
ERR_TXT_FILE_SUFFIX == <<"err", "txt">>

\* Path::with_extension: the last extension, if any, is replaced
with_extension(path, extension) ==
    (IF Len(path) > 1 THEN SubSeq(path, 1, Len(path) - 1) ELSE path) \o extension

\* Path::exists
\* a probe that takes an empty file for a missing one
exists_nonempty(disk, path) == path \in DOMAIN disk /\ disk[path] # <<>>

exists(disk, path) == path \in DOMAIN disk

\* utils::read; fault is the failure of the file system during this test
read(disk, path, fault) ==
    IF fault = "read" \/ ~exists(disk, path)
    THEN Err("ReadingFileFailed")
    ELSE Ok(disk[path])

\* a write that adds to the file that is there
write_append(disk, path, contents, fault) ==
    IF fault = "write"
    THEN [res |-> Err("WritingFileFailed"), files |-> disk]
    ELSE [res |-> Ok(<<>>),
          files |-> [q \in DOMAIN disk \cup {path} |->
                        IF q # path THEN disk[q]
                        ELSE IF exists(disk, path) THEN disk[q] \o contents
                        ELSE contents]]

\* utils::write: the file is created or replaced; a failed write leaves
\* the disk as it was
write(disk, path, contents, fault) ==
    IF fault = "write"
    THEN [res |-> Err("WritingFileFailed"), files |-> disk]
    ELSE [res |-> Ok(<<>>),
          files |-> [q \in DOMAIN disk \cup {path} |->
                        IF q = path THEN as_bytes(contents) ELSE disk[q]]]

-----------------------------------------------------------------------------
(* message.rs: what of the renderer can change the control flow            *)

\* should_truncate_output: Err for a value that is not recognized
should_truncate_output(env) ==
    IF IsNone(env) THEN Ok(TRUE)
    ELSE IF Unwrap(env) \in {"1", "yes", "true"} THEN Ok(TRUE)
    ELSE IF Unwrap(env) \in {"0", "no", "false"} THEN Ok(FALSE)
    ELSE Err([error |-> "UnrecognizedEnv",
              key |-> "TRYEXPAND_TRUNCATE_OUTPUT", value |-> Unwrap(env)])

\* print_lines / print_diff: should_truncate_output().unwrap().  The result
\* is the panic of the unwrap, None when the block is printed.
print_block(env) ==
    LET r == should_truncate_output(env) IN
    IF r.ok THEN None ELSE Some(r.err)

\* report_outcome: every outcome but SnapshotMatch prints a block or a diff
report_outcome(env, outcome) ==
    IF outcome.kind = "SnapshotMatch" THEN None ELSE print_block(env)

\* command_failure prints the error as a block
command_failure(env) == print_block(env)

-----------------------------------------------------------------------------
(* test_suite.rs: the observer that try_run hands to Test::run.            *)
(* obs = [failures, emitted, panic]: the HashSet of try_run, the log of    *)
(* the outcomes the observer was called with, the panic it died of.        *)

observe(obs, env, test_path, outcome) ==
    LET p == report_outcome(env, outcome)
        seen == [obs EXCEPT !.emitted = Append(@, outcome)]
    IN  IF IsSome(p) THEN [seen EXCEPT !.panic = p]
        ELSE IF as_status(outcome.kind) = "Failure"
             THEN [seen EXCEPT !.failures = @ \cup {test_path}]
             ELSE seen

\* for outcome in outcomes { observe(outcome) }: a panic ends the loop
RECURSIVE ObserveAll(_, _, _, _)
ObserveAll(obs, env, test_path, outcomes) ==
    IF outcomes = <<>> \/ IsSome(obs.panic) THEN obs
    ELSE ObserveAll(observe(obs, env, test_path, Head(outcomes)),
                    env, test_path, Tail(outcomes))

-----------------------------------------------------------------------------
(* test.rs: the comparator                                                 *)

\* a comparison of the two texts as they are
compare_exact(actual, expected) ==
    IF actual = expected THEN "Match" ELSE "Mismatch"

compare(actual, expected) ==
    IF Lines(actual) = Lines(expected) THEN "Match" ELSE "Mismatch"

\* the result is [res, files]: Result<Option<TestOutcome>> and the disk
evaluate_snapshot_overwriting_files(expected, actual, snapshot_path, disk, fault) ==
    IF IsNone(actual) THEN [res |-> Ok(None), files |-> disk]
    ELSE IF IsSome(expected) /\ Unwrap(actual) = Unwrap(expected)
    THEN [res |-> Ok(None), files |-> disk]
    ELSE The({ IF ~w.res.ok THEN w
               ELSE [res |-> Ok(Some([kind |-> IF IsSome(expected) THEN "SnapshotUpdated"
                                               ELSE "SnapshotCreated",
                                      path |-> snapshot_path])),
                     files |-> w.files]
               : w \in {write(disk, snapshot_path, Unwrap(actual), fault)} })

evaluate_snapshot_expecting_files(expected, actual, snapshot_path, disk, fault) ==
    LET kind ==
          CASE IsNone(actual) /\ IsNone(expected) -> "SnapshotMatch"
            [] IsNone(actual) /\ IsSome(expected) -> "SnapshotUnexpected"
            [] IsSome(actual) /\ IsNone(expected) -> "SnapshotExpected"
            [] OTHER -> IF compare(Unwrap(actual), Unwrap(expected)) = "Match"
                        THEN "SnapshotMatch" ELSE "SnapshotMismatch"
    IN  [res |-> Ok(Some([kind |-> kind, path |-> snapshot_path])), files |-> disk]

\* one turn of the for loop of evaluate_snapshots.  st = [files, outcomes,
\* probed, reads, writes, err]: the disk, the outcomes pushed so far, the
\* paths asked for with exists(), read and written so far, the error the
\* loop returned with.
SnapshotStep(snapshot_path, actual, behavior, fault, st) ==
    The({ The({ IF ~r.ok
                THEN [st EXCEPT !.probed = Append(@, snapshot_path),
                                !.reads = Append(@, snapshot_path),
                                !.err = Some(r.err)]
                ELSE The({ IF ~e.res.ok
                           THEN [st EXCEPT !.probed = Append(@, snapshot_path),
                                           !.reads = IF present
                                                     THEN Append(@, snapshot_path) ELSE @,
                                           !.err = Some(e.res.err)]
                           ELSE [st EXCEPT !.probed = Append(@, snapshot_path),
                                           !.reads = IF present
                                                     THEN Append(@, snapshot_path) ELSE @,
                                           !.files = e.files,
                                           !.writes = IF e.files # st.files
                                                      THEN Append(@, snapshot_path) ELSE @,
                                           !.outcomes = IF IsSome(e.res.val)
                                                        THEN Append(@, Unwrap(e.res.val))
                                                        ELSE @]
                           : e \in {IF behavior = "OverwriteFiles"
                                    THEN evaluate_snapshot_overwriting_files(
                                             IF present THEN Some(from_utf8_lossy(r.val))
                                             ELSE None,
                                             actual, snapshot_path, st.files, fault)
                                    ELSE evaluate_snapshot_expecting_files(
                                             IF present THEN Some(from_utf8_lossy(r.val))
                                             ELSE None,
                                             actual, snapshot_path, st.files, fault)} })
                : r \in {IF present THEN read(st.files, snapshot_path, fault)
                         ELSE Ok(<<>>)} })
          : present \in {exists(st.files, snapshot_path)} })

RECURSIVE SnapshotLoop(_, _, _, _)
SnapshotLoop(snapshots, behavior, fault, st) ==
    IF snapshots = <<>> \/ IsSome(st.err) THEN st
    ELSE The({ SnapshotLoop(Tail(snapshots), behavior, fault, next)
               : next \in {SnapshotStep(Head(snapshots)[1], Head(snapshots)[2],
                                        behavior, fault, st)} })

\* Iterator::partition by as_status
RECURSIVE SelectStatus(_, _)
SelectStatus(outcomes, status) ==
    IF outcomes = <<>> THEN <<>>
    ELSE IF as_status(Head(outcomes).kind) = status
         THEN <<Head(outcomes)>> \o SelectStatus(Tail(outcomes), status)
         ELSE SelectStatus(Tail(outcomes), status)

\* the result is [res, st, obs]: Result<TestStatus>, the loop's state, the
\* observer after the outcomes were handed to it
evaluate_snapshots(snapshots, behavior, disk, fault, obs, env, test_path) ==
    The({ IF IsSome(st.err) THEN [res |-> Err(Unwrap(st.err)), st |-> st, obs |-> obs]
          ELSE The({ IF bad # <<>>
                     THEN [res |-> Ok("Failure"), st |-> st,
                           obs |-> ObserveAll(obs, env, test_path, bad)]
                     ELSE [res |-> Ok("Success"), st |-> st,
                           obs |-> ObserveAll(obs, env, test_path,
                                              SelectStatus(st.outcomes, "Success"))]
                     : bad \in {SelectStatus(st.outcomes, "Failure")} })
          : st \in {SnapshotLoop(snapshots, behavior, fault,
                                 [files |-> disk, outcomes |-> <<>>, probed |-> <<>>,
                                  reads |-> <<>>, writes |-> <<>>, err |-> None])} })

\* the snapshots vector that process_snapshots builds from the report
snapshots_of(test_path, report) ==
    LET expanded_snapshot_path == with_extension(test_path, OUT_RS_FILE_SUFFIX)
        output_snapshot_path == with_extension(test_path, OUT_TXT_FILE_SUFFIX)
        error_snapshot_path == with_extension(test_path, ERR_TXT_FILE_SUFFIX)
        Both(output) == << <<output_snapshot_path, output.stdout>>,
                           <<error_snapshot_path, output.stderr>> >>
        first == CASE report.action.kind = "Expand" ->
                        << <<expanded_snapshot_path, report.action.stdout>> >>
                   [] report.action.kind = "Check" ->
                        << <<error_snapshot_path, report.action.stderr>> >>
                   [] OTHER -> Both(report.action)
        second == IF report.action.evaluation = "Failure"
                  THEN << <<error_snapshot_path, report.action.stderr>> >>
                  ELSE IF IsNone(report.post_action) THEN <<>>
                  ELSE IF Unwrap(report.post_action).kind = "Check"
                  THEN << <<error_snapshot_path, Unwrap(report.post_action).stderr>> >>
                  ELSE Both(Unwrap(report.post_action))
    IN  first \o second

\* the result is that of evaluate_snapshots, with report.evaluation() for
\* the status evaluate_snapshots returned
process_snapshots(test_path, report, behavior, disk, fault, obs, env) ==
    The({ IF e.res.ok THEN [e EXCEPT !.res = Ok(evaluation(report))] ELSE e
          : e \in {evaluate_snapshots(snapshots_of(test_path, report), behavior,
                                      disk, fault, obs, env, test_path)} })

\* ActionOutput::Expand(..) etc.: the output of the command with its kind
ActionOutput(kind, output) ==
    [kind |-> kind, stdout |-> output.stdout, stderr |-> output.stderr,
     evaluation |-> output.evaluation]

\* the outcome of report_unexpected_success / report_unexpected_failure
unexpected_outcome(kind) == [kind |-> kind, path |-> <<>>]

\* a Test::run that runs the post-action whatever the primary action gave
always_run_post(action_evaluation, post_action) == IsSome(post_action)

\* Test::run: the post-action is run after a primary action that evaluated
\* to Success, if the plan has one
should_run_post(action_evaluation, post_action) ==
    action_evaluation = "Success" /\ IsSome(post_action)

NoIo == [probed |-> <<>>, reads |-> <<>>, writes |-> <<>>]

\* Test::run.  ios = [action, post_action] is what the two commands do when
\* they are run, fault the failure of the file system during this test.
\* The result: res, the Result<TestStatus>; files, the disk; obs, the
\* observer; and, for the properties, report (Option), source (Option, the
\* text of the source once it is read), primary (Option, the evaluation of
\* the primary action), commands (those that were run), compared
\* (process_snapshots was entered), io.
TestRun(test_path, plan, options, ios, fault, disk, obs, env) ==
    LET behavior == IF options.skip_overwrite THEN "ExpectFiles" ELSE plan.behavior
        early(e, primary, commands, report) ==
            [res |-> Err(e), files |-> disk, obs |-> obs, report |-> report,
             source |-> None, primary |-> primary,
             commands |-> commands, compared |-> FALSE, io |-> NoIo]
        \* the report is built: the source is read, the evaluation matched
        \* with the expectation
        judge(report, commands, source) ==
            IF ~source.ok
            THEN early(source.err, Some(report.action.evaluation), commands, Some(report))
            ELSE IF evaluation(report) # plan.expectation
            THEN [res |-> Ok("Failure"), files |-> disk,
                  obs |-> observe(obs, env, test_path,
                                  unexpected_outcome(
                                      IF evaluation(report) = "Success"
                                      THEN "UnexpectedSuccess" ELSE "UnexpectedFailure")),
                  report |-> Some(report), source |-> Some(from_utf8_lossy(source.val)),
                  primary |-> Some(report.action.evaluation),
                  commands |-> commands, compared |-> FALSE, io |-> NoIo]
            ELSE The({ [res |-> e.res, files |-> e.st.files, obs |-> e.obs,
                        report |-> Some(report),
                        source |-> Some(from_utf8_lossy(source.val)),
                        primary |-> Some(report.action.evaluation),
                        commands |-> commands, compared |-> TRUE,
                        io |-> [probed |-> e.st.probed, reads |-> e.st.reads,
                                writes |-> e.st.writes]]
                       : e \in {process_snapshots(test_path, report, behavior, disk,
                                                  fault, obs, env)} })
        read_source == read(disk, test_path, IF fault = "source" THEN "read" ELSE "none")
    IN  The({ IF ~a.ok THEN early(a.err, None, <<plan.action>>, None)
              ELSE IF ~should_run_post(a.val.evaluation, plan.post_action)
              THEN judge([action |-> ActionOutput(plan.action, a.val),
                          post_action |-> None],
                         <<plan.action>>, read_source)
              ELSE The({ IF ~p.ok
                         THEN early(p.err, Some(a.val.evaluation),
                                    <<plan.action, Unwrap(plan.post_action)>>, None)
                         ELSE judge([action |-> ActionOutput(plan.action, a.val),
                                     post_action |->
                                        Some(ActionOutput(Unwrap(plan.post_action), p.val))],
                                    <<plan.action, Unwrap(plan.post_action)>>, read_source)
                         : p \in {cargo_command(Unwrap(plan.post_action),
                                                ios.post_action)} })
              : a \in {cargo_command(plan.action, ios.action)} })

-----------------------------------------------------------------------------
(* test_suite.rs: construction of the suite                                *)

\* the order of path.sort(): the order of the file names as strings
Rank(c) ==
    CASE c = "a" -> 1 [] c = "b" -> 2 [] c = "err" -> 3 [] c = "out" -> 4
      [] c = "rs" -> 5 [] c = "txt" -> 6 [] OTHER -> 7

RECURSIVE PathLess(_, _)
PathLess(p, q) ==
    IF q = <<>> THEN FALSE
    ELSE IF p = <<>> THEN TRUE
    ELSE IF Head(p) = Head(q) THEN PathLess(Tail(p), Tail(q))
    ELSE Rank(Head(p)) < Rank(Head(q))

\* Vec::sort of a set of paths
RECURSIVE SortPaths(_)
SortPaths(paths) ==
    IF paths = {} THEN <<>>
    ELSE LET least == CHOOSE p \in paths : \A q \in paths \ {p} : PathLess(p, q)
         IN  <<least>> \o SortPaths(paths \ {least})

\* glob::glob on a pattern of one directory: "*" stands for one part or
\* more of the file name
RECURSIVE GlobMatch(_, _)
GlobMatch(pattern, path) ==
    IF pattern = <<>> THEN path = <<>>
    ELSE IF path = <<>> THEN FALSE
    ELSE IF Head(pattern) = "*"
         THEN GlobMatch(Tail(pattern), Tail(path)) \/ GlobMatch(pattern, Tail(path))
         ELSE Head(pattern) = Head(path) /\ GlobMatch(Tail(pattern), Tail(path))

expand_globs(pattern, disk) == {path \in DOMAIN disk : GlobMatch(pattern, path)}

\* path.to_string_lossy().ends_with(OUT_RS_FILE_SUFFIX), a test on the text
\* of the path
ends_with_out_rs(path) ==
    Len(path) >= 2 /\ SubSeq(path, Len(path) - 1, Len(path)) = OUT_RS_FILE_SUFFIX

\* the paths of one pattern without the filter
paths_unfiltered(pattern, disk) == expand_globs(pattern, disk)

\* the paths of one pattern, after the filter of TestSuite::new
paths_of_pattern(pattern, disk) ==
    {path \in expand_globs(pattern, disk) : ~ends_with_out_rs(path)}

TRYEXPAND_ENV_KEY == "TRYEXPAND"
TRYEXPAND_ENV_VAL_OVERWRITE == "overwrite"
TRYEXPAND_ENV_VAL_EXPECT == "expect"

\* a resolution of the behavior that takes every other value for `expect`
lenient_behavior_from_env(env) ==
    IF IsSome(env) /\ Unwrap(env) = TRYEXPAND_ENV_VAL_OVERWRITE
    THEN Ok("OverwriteFiles") ELSE Ok("ExpectFiles")

test_behavior_from_env(env) ==
    IF IsNone(env) THEN Ok("ExpectFiles")
    ELSE IF Unwrap(env) = TRYEXPAND_ENV_VAL_EXPECT THEN Ok("ExpectFiles")
    ELSE IF Unwrap(env) = TRYEXPAND_ENV_VAL_OVERWRITE THEN Ok("OverwriteFiles")
    ELSE Err([error |-> "UnrecognizedEnv", key |-> TRYEXPAND_ENV_KEY,
              value |-> Unwrap(env)])

\* tests_for: the tests, sorted by path
tests_for(paths) == SortPaths(paths)

Range(seq) == {seq[i] : i \in 1..Len(seq)}

\* TestSuite::new: the suite, or the panic it ends with
new(patterns, action, disk, env) ==
    LET without_matches == {pt \in Range(patterns) : paths_of_pattern(pt, disk) = {}}
        unique_paths == UNION {paths_of_pattern(pt, disk) : pt \in Range(patterns)}
        behavior == test_behavior_from_env(env)
    IN  IF patterns = <<>>
        THEN Err([kind |-> "no file patterns provided"])
        ELSE IF without_matches # {}
        THEN Err([kind |-> "no matching files found for:",
                  patterns |-> SortPaths(without_matches)])
        ELSE IF ~behavior.ok
        THEN Err([kind |-> "unwrap", error |-> behavior.err])
        ELSE Ok([plan |-> [action |-> action, post_action |-> None,
                           behavior |-> behavior.val, expectation |-> "Success"],
                 options |-> [skip_overwrite |-> FALSE],
                 tests |-> tests_for(unique_paths),
                 wrapper |-> IF action = "Expand" THEN "ExpandTestSuite"
                             ELSE "BuildTestSuite",
                 patterns |-> patterns])

\* an and_post_check that replaces the post-action that is set
and_post_replace(s, post_action) ==
    Ok([s EXCEPT !.plan.post_action = Some(post_action)])

\* TestSuite::and_post_check
and_post_check(s, post_action) ==
    IF IsSome(s.plan.post_action)
    THEN Err([kind |-> "Post-expand action already set!"])
    ELSE Ok([s EXCEPT !.plan.post_action = Some(post_action)])

\* TestSuite::expect_result
expect_result(s, result) == [s EXCEPT !.plan.expectation = result]

-----------------------------------------------------------------------------
(* project.rs: the ephemeral project of a suite in the build area          *)
(* (target/tests).  The build area is a function from the directories that *)
(* exist in it to [owner]: the suite instance that made its contents.      *)

\* the alphabet of base62::encode: 0-9, A-Z, a-z
Digits == <<"0", "1", "2", "3", "4", "5", "6", "7", "8", "9">>
Upper == <<"A", "B", "C", "D", "E", "F", "G", "H", "I", "J", "K", "L", "M",
           "N", "O", "P", "Q", "R", "S", "T", "U", "V", "W", "X", "Y", "Z">>
Lower == <<"a", "b", "c", "d", "e", "f", "g", "h", "i", "j", "k", "l", "m",
           "n", "o", "p", "q", "r", "s", "t", "u", "v", "w", "x", "y", "z">>
Alphabet == Digits \o Upper \o Lower

\* base62::encode of a number below 62 * 62: its digits, the most
\* significant first
base62_encode(n) ==
    IF n < Len(Alphabet) THEN <<Alphabet[n + 1]>>
    ELSE <<Alphabet[(n \div Len(Alphabet)) + 1], Alphabet[(n % Len(Alphabet)) + 1]>>

\* str::to_lowercase
to_lowercase(text) ==
    [i \in 1..Len(text) |->
        IF \E k \in 1..Len(Upper) : Upper[k] = text[i]
        THEN Lower[CHOOSE k \in 1..Len(Upper) : Upper[k] = text[i]]
        ELSE text[i]]

\* the call sites (file:line:column) of the host's test functions
CallSites == {"tests.rs:5:5", "tests.rs:10:5", "tests.rs:15:5"}

\* DefaultHasher over file, line and column of the call site: the first two
\* sites hash to numbers whose base62 digits are `A` and `a`
hash_of(location) ==
    CASE location = "tests.rs:5:5" -> 10
      [] location = "tests.rs:10:5" -> 36
      [] OTHER -> 11

\* an id that does not look at the call site
constant_suite_id(location) == to_lowercase(base62_encode(0))

\* test_suite_id_from_location
test_suite_id_from_location(location) == to_lowercase(base62_encode(hash_of(location)))

\* the crate under test (CARGO_PKG_NAME)
CrateName == "host"

\* Project::new: tests_dir.join(format!("{crate_name}_{test_suite_id}"))
project_dir(crate_name, test_suite_id) == <<crate_name, "_">> \o test_suite_id

\* Project::new: tests_dir.join("tryexpand"), the build-output directory
project_target_dir == <<"tryexpand">>

\* fs::remove_dir_all
remove_dir_all(area, dir) == [d \in DOMAIN area \ {dir} |-> area[d]]

\* fs::create_dir_all followed by the writes of the files of the directory
write_dir(area, dir, owner) ==
    [d \in DOMAIN area \cup {dir} |-> IF d = dir THEN [owner |-> owner] ELSE area[d]]

\* fs::create_dir_all: an existing directory is left as it is
create_dir_all(area, dir, owner) ==
    IF dir \in DOMAIN area THEN area ELSE write_dir(area, dir, owner)

\* should_keep_artifacts
should_keep_artifacts(env) ==
    IF IsNone(env) THEN Ok(FALSE)
    ELSE IF to_lowercase(Unwrap(env)) \in {<<"1">>, <<"y", "e", "s">>, <<"t", "r", "u", "e">>}
    THEN Ok(TRUE)
    ELSE IF to_lowercase(Unwrap(env)) \in {<<"0">>, <<"n", "o">>, <<"f", "a", "l", "s", "e">>}
    THEN Ok(FALSE)
    ELSE Err([error |-> "UnrecognizedEnv", key |-> "TRYEXPAND_KEEP_ARTIFACTS",
              value |-> to_lowercase(Unwrap(env))])

\* a teardown that removes the directory whatever the variable says
drop_always(area, project, env) == remove_dir_all(area, project.dir)

\* impl Drop for Project: the directory is removed unless the variable says
\* to keep it; an unrecognized value is a warning and removes it
project_drop(area, project, env) ==
    IF should_keep_artifacts(env).ok /\ should_keep_artifacts(env).val
    THEN area
    ELSE remove_dir_all(area, project.dir)

\* the Project value of Project::new
project_of(crate_name, test_suite_id) ==
    [dir |-> project_dir(crate_name, test_suite_id),
     target_dir |-> project_target_dir,
     name |-> project_dir(crate_name, test_suite_id)]

\* Project::new from `if project.dir.exists()` on: what is left of an
\* earlier run is removed, the directory and its files are written, the
\* build-output directory is made, the dependencies are built; when that
\* fails the Project value is dropped on the way out
project_new(crate_name, test_suite_id, area, owner, env, builds) ==
    The({ IF builds
          THEN [res |-> Ok(project_of(crate_name, test_suite_id)), area |-> made]
          ELSE [res |-> Err([error |-> "CargoExpandExecution"]),
                area |-> project_drop(made, project_of(crate_name, test_suite_id), env)]
          : made \in {create_dir_all(
                         write_dir(remove_dir_all(area,
                                                  project_dir(crate_name, test_suite_id)),
                                   project_dir(crate_name, test_suite_id), owner),
                         project_target_dir, owner)} })

\* TestSuite::new in the build area: r is what new() makes of the patterns
\* and of TRYEXPAND.  The patterns are refused before Project::new; a
\* Project that cannot be made is a panic; the behavior is resolved after
\* Project::new, and its panic drops the Project.
new_in_area(r, location, area, owner, env, builds) ==
    IF ~r.ok /\ r.err.kind # "unwrap"
    THEN [res |-> r, area |-> area]
    ELSE The({ IF ~p.res.ok
               THEN [res |-> Err([kind |-> "Could not create test project",
                                  error |-> p.res.err]),
                     area |-> p.area]
               ELSE IF ~r.ok
               THEN [res |-> r, area |-> project_drop(p.area, p.res.val, env)]
               ELSE [res |-> Ok([project |-> p.res.val, call_site |-> location] @@ r.val),
                     area |-> p.area]
               : p \in {project_new(CrateName, test_suite_id_from_location(location),
                                    area, owner, env, builds)} })

-----------------------------------------------------------------------------
(* The environment of a suite: the disk, the compiler, the variables       *)

SourceA == <<"a", "rs">>
SourceB == <<"b", "rs">>

\* the patterns a test function passes
PatternInputs ==
    { <<>>, << <<"a", "rs">> >>, << <<"*", "rs">> >>, << <<"a", "*">> >>,
      << <<"z", "rs">> >>, << <<"a", "rs">>, <<"z", "rs">> >>,
      << <<"a", "out", "rs">> >> }

\* the snapshot files that may lie next to the sources before the first run
SnapshotPaths ==
    {with_extension(src, sfx) : src \in {SourceA},
       sfx \in {OUT_RS_FILE_SUFFIX, OUT_TXT_FILE_SUFFIX, ERR_TXT_FILE_SUFFIX}}

\* and what they may hold: nothing, or the line "a"
SnapshotContents == { <<>>, <<"a", NL>> }

Sources == [p \in {SourceA, SourceB} |-> <<"s">>]

\* the largest number of snapshot files on the disk before the first run
MaxSnapshots == 1

DisksWith(present) ==
    {[q \in DOMAIN Sources \cup present |->
         IF q \in present THEN f[q] ELSE Sources[q]] :
       f \in [present -> SnapshotContents]}

InitialDisks ==
    UNION {DisksWith(present) :
             present \in {S \in SUBSET SnapshotPaths : Cardinality(S) <= MaxSnapshots}}

\* what the compiler makes of a source file: "ok" compiles, expands to the
\* line "a" and runs; "broken" does not compile; "panics" compiles and
\* expands, and fails when it is run
SourceKinds == {"ok", "broken", "panics"}

\* the process of one cargo command on a source of the given kind
ToolRun(kind, command) ==
    LET good == [spawned |-> TRUE, status |-> 0,
                 stdout |-> IF command = "Check" THEN <<>> ELSE <<"a", NL>>,
                 stderr |-> <<>>]
        compile_error == [spawned |-> TRUE, status |-> 101, stdout |-> <<>>,
                          stderr |-> <<"W", NL, "E", "a", NL, "O", NL>>]
        runtime_error == [spawned |-> TRUE, status |-> 101, stdout |-> <<"a", NL>>,
                          stderr |-> <<"b", NL>>]
    IN  CASE kind = "ok" -> good
          [] kind = "broken" -> compile_error
          [] command \in {"Test", "Run"} -> runtime_error
          [] OTHER -> good

\* the failures of the system during one test: none, the command cannot be
\* spawned (the first, or the one after the expansion), the source cannot be
\* read, a snapshot cannot be read, a snapshot cannot be written
\* the largest number of tests that meet such a failure
MaxFaults == 1

Faults == {"none", "spawn", "spawn_post", "source", "read", "write"}

Spawn(io, failed) == IF failed THEN [io EXCEPT !.spawned = FALSE] ELSE io

\* a file that is no source of the suite's author (a snapshot picked up by
\* a pattern) does not compile
KindsOf(path) == IF path \in {SourceA, SourceB} THEN SourceKinds ELSE {"broken"}

TryexpandValues == {None, Some("expect"), Some("overwrite"), Some("Overwrite")}
TruncateValues == {None, Some("maybe")}
KeepValues == {None, Some(<<"1">>), Some(<<"Y", "e", "s">>), Some(<<"T", "R", "U", "E">>),
               Some(<<"0">>), Some(<<"n", "o">>), Some(<<"F", "a", "l", "s", "e">>),
               Some(<<"m", "a", "y", "b", "e">>), Some(<<>>)}

NoTest == [path |-> <<>>]

\* the call site of the test function of Spec
SuiteSite == "tests.rs:5:5"

NoSuite == [tests |-> <<>>]
NoCmp == [op |-> "none"]
NoPar == <<>>
NoCall == [patterns |-> <<>>, action |-> "none"]
EmptyArea == <<>>

InitSuite ==
    /\ pc = "idle"
    /\ suite = NoSuite
    /\ idx = 0
    /\ failures = {}
    /\ command_errors = 0
    /\ panicMsg = None
    /\ last = NoTest
    /\ ran = <<>>
    /\ produced = {}
    /\ errored = {}
    /\ written = {}
    /\ faults = 0
    /\ runNo = 0
    /\ tool = <<>>
    /\ cmp = NoCmp
    /\ asked = NoCall

Init ==
    /\ tryexpandEnv \in TryexpandValues
    /\ truncateEnv \in TruncateValues
    /\ keepEnv = None
    /\ target = EmptyArea
    /\ par = NoPar
    /\ files \in InitialDisks
    /\ InitSuite

env_vars == <<tryexpandEnv, truncateEnv, keepEnv>>
run_vars == <<idx, failures, command_errors, last, ran, produced, errored, written,
              faults, runNo, tool>>

\* tryexpand::expand(patterns) and its siblings: TestSuite::new
New(action, patterns) ==
    /\ pc = "idle"
    /\ \E builds \in BOOLEAN :
       \E n \in {new_in_area(new(patterns, action, files, tryexpandEnv), SuiteSite,
                             target, runNo + 1, keepEnv, builds)} :
         /\ target' = n.area
         /\ IF n.res.ok
            THEN /\ suite' = n.res.val
                 /\ pc' = "built"
                 /\ UNCHANGED panicMsg
            ELSE /\ pc' = "panicked"
                 /\ panicMsg' = Some(n.res.err)
                 /\ UNCHANGED suite
    /\ asked' = [patterns |-> patterns, action |-> action]
    /\ UNCHANGED <<env_vars, files, run_vars, cmp, par>>

Builder(next) ==
    /\ pc = "built"
    /\ suite.wrapper \in {"ExpandTestSuite", "BuildTestSuite"}
    /\ suite' = next
    /\ UNCHANGED <<env_vars, target, files, pc, panicMsg, run_vars, cmp, par, asked>>

\* ExpandTestSuite::skip_overwrite, BuildTestSuite::skip_overwrite
SkipOverwrite == Builder([suite EXCEPT !.options.skip_overwrite = TRUE])

\* ExpandTestSuite::and_check / and_run / and_run_tests
AndPost(post_action) ==
    /\ pc = "built"
    /\ suite.wrapper = "ExpandTestSuite"
    /\ LET r == and_post_check(suite, post_action) IN
         IF r.ok
         THEN /\ suite' = [r.val EXCEPT !.wrapper = "BuildTestSuite"]
              /\ UNCHANGED <<pc, panicMsg>>
         ELSE /\ pc' = "panicked"
              /\ panicMsg' = Some(r.err)
              /\ UNCHANGED suite
    /\ UNCHANGED <<env_vars, target, files, run_vars, cmp, par, asked>>

AndCheck == AndPost("Check")
AndRun == AndPost("Run")
AndRunTests == AndPost("Test")

\* expect_pass / expect_fail of both wrappers
ExpectPass == Builder([expect_result(suite, "Success") EXCEPT !.wrapper = "TestSuitePass"])
ExpectFail == Builder([expect_result(suite, "Failure") EXCEPT !.wrapper = "TestSuiteFail"])

\* Drop for TestSuite: try_run up to its loop
Drop ==
    /\ pc = "built"
    /\ pc' = "running"
    /\ suite' = [suite EXCEPT !.wrapper = "TestSuite"]
    /\ idx' = 1
    /\ failures' = {}
    /\ command_errors' = 0
    /\ runNo' = 1
    /\ UNCHANGED <<env_vars, target, files, panicMsg, last, ran, produced, errored,
                   written, faults, tool, cmp, par, asked>>

\* try_run: let max_errors = 2
max_errors == 2

\* the panic message of Result::unwrap on an Err
unwrap_panic(error) == [kind |-> "unwrap", error |-> error]

HasFailure(outcomes) == \E i \in 1..Len(outcomes) : as_status(outcomes[i].kind) = "Failure"

\* try_run: one turn of `for test in tests`: Test::run with the observer,
\* then the handling of its error
RunTest ==
    /\ pc = "running"
    /\ idx <= Len(suite.tests)
    /\ LET test_path == suite.tests[idx] IN
       \E kind \in IF test_path \in DOMAIN tool THEN {tool[test_path]} ELSE KindsOf(test_path),
          fault \in IF faults < MaxFaults THEN Faults ELSE {"none"} :
         LET post == IF IsSome(suite.plan.post_action)
                     THEN Unwrap(suite.plan.post_action) ELSE "Check"
             ios == [action |-> Spawn(ToolRun(kind, suite.plan.action), fault = "spawn"),
                     post_action |-> Spawn(ToolRun(kind, post), fault = "spawn_post")]
         IN
         \E r \in {TestRun(test_path, suite.plan, suite.options, ios, fault, files,
                           [failures |-> failures, emitted |-> <<>>, panic |-> None],
                           truncateEnv)} :
         LET \* if let Err(err) = result { message::command_failure(..); .. }
             cf == IF IsNone(r.obs.panic) /\ ~r.res.ok
                   THEN command_failure(truncateEnv) ELSE None
             died == IF IsSome(r.obs.panic) THEN r.obs.panic ELSE cf
         IN  /\ files' = r.files
             /\ failures' = r.obs.failures
             /\ IF IsSome(died)
                THEN /\ pc' = "panicked"
                     /\ panicMsg' = Some(unwrap_panic(Unwrap(died)))
                     /\ target' = project_drop(target, suite.project, keepEnv)
                     /\ UNCHANGED <<idx, command_errors>>
                ELSE /\ idx' = idx + 1
                     /\ command_errors' = IF r.res.ok THEN command_errors
                                          ELSE command_errors + 1
                     /\ UNCHANGED <<pc, panicMsg, target>>
             /\ last' = [path |-> test_path, fault |-> fault,
                         returned |-> IsNone(r.obs.panic), res |-> r.res,
                         report |-> r.report, source |-> r.source,
                         primary |-> r.primary, commands |-> r.commands,
                         compared |-> r.compared, io |-> r.io,
                         emitted |-> r.obs.emitted,
                         \* message::command_abortion was called
                         abortion |-> IsNone(died) /\ ~r.res.ok
                                      /\ command_errors + 1 > max_errors]
             /\ ran' = Append(ran, test_path)
             /\ produced' = IF HasFailure(r.obs.emitted)
                            THEN produced \cup {test_path} ELSE produced
             /\ errored' = IF IsNone(r.obs.panic) /\ ~r.res.ok
                           THEN errored \cup {test_path} ELSE errored
             /\ written' = written \cup Range(r.io.writes)
             /\ faults' = IF fault = "none" THEN faults ELSE faults + 1
             /\ tool' = [q \in DOMAIN tool \cup {test_path} |->
                           IF q = test_path THEN kind ELSE tool[q]]
    /\ UNCHANGED <<env_vars, suite, runNo, cmp, par, asked>>

\* try_run after its loop: the panic that lists the failures, or Ok(());
\* on both ways out the fields of the suite are dropped, the Project too
Finish ==
    /\ pc = "running"
    /\ idx > Len(suite.tests)
    /\ IF failures # {}
       THEN /\ pc' = "panicked"
            /\ panicMsg' = Some([kind |-> "tests failed",
                                 k |-> Cardinality(failures),
                                 n |-> Len(suite.tests),
                                 paths |-> SortPaths(failures)])
       ELSE /\ pc' = "passed"
            /\ UNCHANGED panicMsg
    /\ target' = project_drop(target, suite.project, keepEnv)
    /\ UNCHANGED <<env_vars, files, suite, run_vars, cmp, par, asked>>

NewSuite == \E action \in Action, patterns \in PatternInputs : New(action, patterns)

Next ==
    \/ NewSuite
    \/ SkipOverwrite
    \/ AndCheck
    \/ AndRun
    \/ AndRunTests
    \/ ExpectPass
    \/ ExpectFail
    \/ Drop
    \/ RunTest
    \/ Finish

Spec == Init /\ [][Next]_vars

-----------------------------------------------------------------------------
(* The same test function run a second time, under TRYEXPAND=overwrite     *)

InitRerun ==
    /\ tryexpandEnv = Some(TRYEXPAND_ENV_VAL_OVERWRITE)
    /\ truncateEnv \in TruncateValues
    /\ keepEnv \in {None, Some(<<"1">>)}
    /\ target = EmptyArea
    /\ par = NoPar
    /\ files \in InitialDisks
    /\ InitSuite

\* the test function is called again: TestSuite::new with the same
\* patterns on the disk as it is now, the same builder calls, and the drop
Rerun ==
    /\ pc \in {"passed", "panicked"}
    /\ runNo = 1
    /\ \E n \in {new_in_area(new(suite.patterns, suite.plan.action, files, tryexpandEnv),
                             SuiteSite, target, runNo + 1, keepEnv, TRUE)} :
       \E r \in {n.res} :
         /\ target' = n.area
         /\ IF r.ok
            THEN /\ suite' = [r.val EXCEPT !.plan.post_action = suite.plan.post_action,
                                           !.plan.expectation = suite.plan.expectation,
                                           !.options = suite.options,
                                           !.wrapper = "TestSuite"]
                 /\ pc' = "running"
                 /\ panicMsg' = None
            ELSE /\ pc' = "panicked"
                 /\ panicMsg' = Some(r.err)
                 /\ UNCHANGED suite
    /\ idx' = 1
    /\ failures' = {}
    /\ command_errors' = 0
    /\ last' = NoTest
    /\ ran' = <<>>
    /\ produced' = {}
    /\ errored' = {}
    /\ runNo' = 2
    /\ UNCHANGED <<env_vars, files, written, faults, tool, cmp, par, asked>>

NextRerun == Next \/ Rerun

SpecRerun == InitRerun /\ [][NextRerun]_vars

-----------------------------------------------------------------------------
(* Suites of several test functions of one test binary, run by the threads *)
(* of the test harness side by side: their projects in the build area      *)

Suites == {1, 2}

\* the largest number of tests a suite of SpecPar runs
MaxParTests == 2

\* how try_run ends: it returns, it panics with the list of the failures,
\* it panics in a step of a test
Endings == {"passed", "tests failed", "unwrap"}

IdleSuite == [pc |-> "idle"]

InitPar ==
    /\ tryexpandEnv = None
    /\ truncateEnv = None
    /\ keepEnv \in KeepValues
    /\ files = Sources
    /\ InitSuite
    /\ \E stale \in SUBSET {project_dir(CrateName, test_suite_id_from_location(site)) :
                             site \in CallSites} :
         /\ Cardinality(stale) <= 1
         /\ target = [d \in stale |-> [owner |-> 0]]
    /\ par = [i \in Suites |-> IdleSuite]

par_frame == <<env_vars, files, pc, suite, panicMsg, run_vars, cmp, asked>>

\* a test function calls tryexpand at its call site: TestSuite::new up to
\* Project::new's removal of what an earlier run left in its directory
ParStart(i) ==
    /\ par[i].pc = "idle"
    /\ \E site \in CallSites :
       \E project \in {project_of(CrateName, test_suite_id_from_location(site))} :
         /\ par' = [par EXCEPT ![i] = [pc |-> "creating", site |-> site,
                                       project |-> project, tests |-> 0,
                                       ending |-> "none"]]
         /\ target' = remove_dir_all(target, project.dir)
    /\ UNCHANGED par_frame

\* Project::new from create_dir_all on: the directory is written, the
\* dependencies are built; a Project that cannot be built is dropped and
\* TestSuite::new panics
ParCreate(i) ==
    /\ par[i].pc = "creating"
    /\ \E builds \in BOOLEAN :
       \E p \in {project_new(CrateName, test_suite_id_from_location(par[i].site),
                             target, i, keepEnv, builds)} :
         /\ target' = p.area
         /\ par' = [par EXCEPT ![i].pc = IF p.res.ok THEN "running" ELSE "dropped",
                               ![i].project = IF p.res.ok THEN p.res.val ELSE @,
                               ![i].ending = IF p.res.ok THEN @ ELSE "no project"]
    /\ UNCHANGED par_frame

\* try_run: a cargo command of one test works in project.dir, with
\* project.target_dir as its build-output directory
ParRunTest(i) ==
    /\ par[i].pc = "running"
    /\ par[i].tests < MaxParTests
    /\ par' = [par EXCEPT ![i].tests = @ + 1]
    /\ target' = create_dir_all(target, par[i].project.target_dir, i)
    /\ UNCHANGED par_frame

\* impl Drop for TestSuite: try_run ends, and the Project is dropped
ParEnd(i) ==
    /\ par[i].pc = "running"
    /\ \E ending \in Endings :
         par' = [par EXCEPT ![i].pc = "dropped", ![i].ending = ending]
    /\ target' = project_drop(target, par[i].project, keepEnv)
    /\ UNCHANGED par_frame

NextPar == \E i \in Suites : ParStart(i) \/ ParCreate(i) \/ ParRunTest(i) \/ ParEnd(i)

SpecPar == InitPar /\ [][NextPar]_vars

\* the threads of the harness run their test functions to the end
SpecParFair == SpecPar /\ \A i \in Suites : WF_vars(ParStart(i) \/ ParCreate(i)
                                                     \/ ParRunTest(i) \/ ParEnd(i))

\* the suite has called tryexpand and its Project is not dropped yet
ParActive(i) == par[i].pc \in {"creating", "running"}

C18_DisjointFootprints ==
    \A i, j \in Suites :
      (i # j /\ ParActive(i) /\ ParActive(j)
         /\ to_lowercase(base62_encode(hash_of(par[i].site)))
              # to_lowercase(base62_encode(hash_of(par[j].site))))
        => {par[i].project.dir, par[i].project.target_dir}
             \cap {par[j].project.dir, par[j].project.target_dir} = {}

\* the value of TRYEXPAND_KEEP_ARTIFACTS asks to keep the project
KeepAsked ==
    /\ IsSome(keepEnv)
    /\ to_lowercase(Unwrap(keepEnv)) \in {<<"1">>, <<"y", "e", "s">>, <<"t", "r", "u", "e">>}

-----------------------------------------------------------------------------
(* The comparator alone: one snapshot path, every short text               *)

\* the largest length of the texts and files of the comparator's harness
MaxLen == 3

RECURSIVE SeqsUpTo(_, _)
SeqsUpTo(alphabet, n) ==
    IF n = 0 THEN {<<>>}
    ELSE LET shorter == SeqsUpTo(alphabet, n - 1)
         IN  shorter \cup {Append(t, c) : t \in shorter, c \in alphabet}

\* the texts (Strings): no invalid byte in them
CmpTexts == SeqsUpTo({"a", NL, CR}, MaxLen)

\* the contents of a file: any bytes
CmpBytes == SeqsUpTo({"a", NL, CR, BAD}, MaxLen)

CmpPath == with_extension(SourceA, OUT_RS_FILE_SUFFIX)

CmpDisks == {<<>>} \cup {[q \in {CmpPath} |-> b] : b \in CmpBytes}

InitCmp ==
    /\ tryexpandEnv = None
    /\ truncateEnv = None
    /\ keepEnv = None
    /\ target = EmptyArea
    /\ par = NoPar
    /\ asked = NoCall
    /\ files \in CmpDisks
    /\ pc = "idle"
    /\ suite = NoSuite
    /\ idx = 0
    /\ failures = {}
    /\ command_errors = 0
    /\ panicMsg = None
    /\ last = NoTest
    /\ ran = <<>>
    /\ produced = {}
    /\ errored = {}
    /\ written = {}
    /\ faults = 0
    /\ runNo = 0
    /\ tool = <<>>
    /\ cmp \in {[op |-> "input", actual |-> a] : a \in {None} \cup {Some(t) : t \in CmpTexts}}

\* one turn of the loop of evaluate_snapshots on the pair (CmpPath, actual)
CmpStep(op, behavior, actual, fault) ==
    \E st \in {SnapshotLoop(<< <<CmpPath, actual>> >>, behavior, fault,
                            [files |-> files, outcomes |-> <<>>, probed |-> <<>>,
                             reads |-> <<>>, writes |-> <<>>, err |-> None])} :
      /\ files' = st.files
      /\ cmp' = [op |-> op, actual |-> actual, before |-> files,
                 expected |-> IF exists(files, CmpPath)
                              THEN Some(from_utf8_lossy(files[CmpPath])) ELSE None,
                 err |-> st.err, outcomes |-> st.outcomes, writes |-> st.writes,
                 wrote |-> IF op = "reread" THEN cmp.writes # <<>> ELSE FALSE]
      /\ UNCHANGED <<env_vars, target, pc, suite, panicMsg, run_vars, par, asked>>

\* the pair is evaluated under ExpectFiles
CmpExpecting ==
    /\ cmp.op = "input"
    /\ CmpStep("expecting", "ExpectFiles", cmp.actual, "none")

\* the pair is evaluated under OverwriteFiles
CmpOverwriting ==
    /\ cmp.op = "input"
    /\ \E fault \in {"none", "read", "write"} :
         CmpStep("overwriting", "OverwriteFiles", cmp.actual, fault)

\* after that, the same text is evaluated under ExpectFiles
CmpReread ==
    /\ cmp.op = "overwriting"
    /\ IsNone(cmp.err)
    /\ CmpStep("reread", "ExpectFiles", cmp.actual, "none")

NextCmp == CmpExpecting \/ CmpOverwriting \/ CmpReread

SpecCmp == InitCmp /\ [][NextCmp]_vars

\* the kind of the only outcome of a step of the harness, None without one
CmpOutcome ==
    IF cmp.outcomes = <<>> THEN None ELSE Some(cmp.outcomes[1].kind)

\* C3: under ExpectFiles, (absent, absent) is a Match, (absent, present) is
\* SnapshotUnexpected, also for an empty file, (present, absent) is
\* SnapshotExpected, and (present, present) is a Match iff the two texts
\* have the same sequence of lines, else a Mismatch.
C3_ExpectOnlyTable ==
    cmp.op = "expecting" =>
      /\ IsNone(cmp.err)
      /\ Len(cmp.outcomes) = 1
      /\ files = cmp.before
      /\ CmpOutcome = Some(
           CASE IsNone(cmp.actual) /\ IsNone(cmp.expected) -> "SnapshotMatch"
             [] IsNone(cmp.actual) /\ IsSome(cmp.expected) -> "SnapshotUnexpected"
             [] IsSome(cmp.actual) /\ IsNone(cmp.expected) -> "SnapshotExpected"
             [] OTHER -> IF Lines(Unwrap(cmp.actual)) = Lines(Unwrap(cmp.expected))
                         THEN "SnapshotMatch" ELSE "SnapshotMismatch")

\* texts that differ in the line ending and in the last newline match
C3_Witness ==
    /\ cmp.op = "expecting"
    /\ cmp.actual = Some(<<"a", NL>>)
    /\ cmp.expected \in {Some(<<"a", CR, NL>>), Some(<<"a">>)}
    /\ CmpOutcome = Some("SnapshotMatch")

\* C5: under OverwriteFiles, without error: an absent actual leaves the
\* file alone and gives no outcome; a present actual without file writes
\* the file with the actual text, SnapshotCreated; with a file of another
\* text it replaces the file, SnapshotUpdated; with a file of the same text
\* it does not write and gives no outcome.  No step removes a file.
C5_OverwriteTable ==
    /\ (cmp.op = "overwriting" /\ IsNone(cmp.err)) =>
         LET written_disk == [q \in {CmpPath} |-> as_bytes(Unwrap(cmp.actual))] IN
         CASE IsNone(cmp.actual) ->
                /\ files = cmp.before /\ CmpOutcome = None /\ cmp.writes = <<>>
           [] IsSome(cmp.actual) /\ IsNone(cmp.expected) ->
                /\ files = written_disk /\ CmpOutcome = Some("SnapshotCreated")
           [] IsSome(cmp.actual) /\ IsSome(cmp.expected)
                /\ Unwrap(cmp.actual) # Unwrap(cmp.expected) ->
                /\ files = written_disk /\ CmpOutcome = Some("SnapshotUpdated")
           [] OTHER ->
                /\ files = cmp.before /\ CmpOutcome = None /\ cmp.writes = <<>>
    /\ cmp.op # "input" => DOMAIN cmp.before \subseteq DOMAIN files

\* a file with another text was replaced
C5_Witness ==
    /\ cmp.op = "overwriting"
    /\ cmp.expected = Some(<<"a", NL, "a">>)
    /\ cmp.actual = Some(<<"a", NL>>)
    /\ files = [q \in {CmpPath} |-> <<"a", NL>>]
    /\ CmpOutcome = Some("SnapshotUpdated")

C15_AbsenceLaw ==
    (/\ cmp.op \in {"expecting", "overwriting"}
     /\ IsNone(cmp.actual)
     /\ IsNone(cmp.err)
     /\ ~HasFailure(cmp.outcomes))
    => ~CmpPath \in DOMAIN files

\* C15, amended: for a stream whose normalized output is absent the
\* comparison never creates, changes or deletes the snapshot file; under
\* ExpectFiles a file that exists, even an empty one, is reported as
\* SnapshotUnexpected, which fails the test, and a missing one is a Match;
\* under OverwriteFiles an existing file stays on disk without any outcome.
C15_AbsentStreamLeavesDisk ==
    (cmp.op \in {"expecting", "overwriting"} /\ IsNone(cmp.actual)) =>
      /\ files = cmp.before
      /\ cmp.writes = <<>>
      /\ cmp.op = "expecting" =>
           /\ IsNone(cmp.err)
           /\ CmpOutcome = IF CmpPath \in DOMAIN files
                           THEN Some("SnapshotUnexpected") ELSE Some("SnapshotMatch")
           /\ HasFailure(cmp.outcomes) <=> CmpPath \in DOMAIN files
      /\ cmp.op = "overwriting" => cmp.outcomes = <<>>

\* an empty snapshot file met a stream without output under ExpectFiles
C15_Witness ==
    /\ cmp.op = "expecting"
    /\ IsNone(cmp.actual)
    /\ files = [q \in {CmpPath} |-> <<>>]
    /\ CmpOutcome = Some("SnapshotUnexpected")

-----------------------------------------------------------------------------
(* The four cargo commands alone: every short output of the process        *)

\* what the process writes to its standard output
CargoStdouts == SeqsUpTo({"a", "P", NL, SP}, MaxLen)

\* what the process writes to its log
CargoStderrs == SeqsUpTo({"E", "O", "W", "F", "a", NL}, MaxLen)

\* the exit status of the process: success, or cargo's 101
ExitCodes == {0, 101}

InitCargo ==
    /\ tryexpandEnv = None
    /\ truncateEnv = None
    /\ keepEnv = None
    /\ target = EmptyArea
    /\ par = NoPar
    /\ asked = NoCall
    /\ files = <<>>
    /\ pc = "idle"
    /\ suite = NoSuite
    /\ idx = 0
    /\ failures = {}
    /\ command_errors = 0
    /\ panicMsg = None
    /\ last = NoTest
    /\ ran = <<>>
    /\ produced = {}
    /\ errored = {}
    /\ written = {}
    /\ faults = 0
    /\ runNo = 0
    /\ tool = <<>>
    /\ cmp \in {[op |-> "process",
                 io |-> [spawned |-> TRUE, status |-> code, stdout |-> out,
                         stderr |-> err]]
                : code \in ExitCodes, out \in CargoStdouts, err \in CargoStderrs}

\* Test::run hands the process to the command of the action
CargoStep(action) ==
    /\ cmp.op = "process"
    /\ \E r \in {cargo_command(action, cmp.io)} :
         cmp' = [op |-> action, io |-> cmp.io, output |-> r.val]
    /\ UNCHANGED <<env_vars, target, files, pc, suite, panicMsg, run_vars, par, asked>>

CargoExpand == CargoStep("Expand")
CargoCheck == CargoStep("Check")
CargoTest == CargoStep("Test")
CargoRun == CargoStep("Run")

NextCargo == CargoExpand \/ CargoCheck \/ CargoTest \/ CargoRun

SpecCargo == InitCargo /\ [][NextCargo]_vars

\* C12: for Expand and Test the exit status alone never decides success:
\* when the process exits successfully but its log has a line that begins
\* with the error marker (`error:` or `error[` for Expand, `test result:
\* FAILED` for Test), the evaluation is Failure.
C12_MarkerMeansFailure ==
    LET log == Lines(from_utf8_lossy(cmp.io.stderr))
    IN  /\ (cmp.op = "Expand" /\ cmp.io.status = 0
              /\ \E i \in 1..Len(log) : log[i] # <<>> /\ Head(log[i]) \in {"E", "O"})
           => cmp.output.evaluation = "Failure"
        /\ (cmp.op = "Test" /\ cmp.io.status = 0
              /\ \E i \in 1..Len(log) : log[i] # <<>> /\ Head(log[i]) = "F")
           => cmp.output.evaluation = "Failure"

\* C13: an expansion whose process exits successfully and whose log has no
\* error marker, but whose standard output is empty or absent, is evaluated
\* as Failure.
C13_EmptyExpansionFails ==
    LET log == Lines(from_utf8_lossy(cmp.io.stderr))
    IN  (/\ cmp.op = "Expand"
         /\ cmp.io.status = 0
         /\ ~\E i \in 1..Len(log) : log[i] # <<>> /\ Head(log[i]) \in {"E", "O"}
         /\ (cmp.io.stdout = <<>> \/ IsNone(cmp.output.stdout)))
        => cmp.output.evaluation = "Failure"

\* C14: every text of an output that the comparator can write to a snapshot
\* file, for every command and stream, is not empty, not made of whitespace
\* only, ends with a newline and does not end with two.
C14_OneTrailingNewline ==
    cmp.op \in Action =>
      \A text \in {cmp.output.stdout, cmp.output.stderr} :
        IsSome(text) =>
          LET t == Unwrap(text)
          IN  /\ \E i \in 1..Len(t) : ~IsWhitespace(t[i])
              /\ t[Len(t)] = NL
              /\ ~(Len(t) >= 2 /\ t[Len(t) - 1] = NL)

-----------------------------------------------------------------------------
(* The normalisations alone, on two hosts                                  *)

\* two hosts: the same log of the tool, but each host has its own name of
\* the synthesized crate, build target of the test and source directory
Hosts ==
    << [project |-> [name |-> <<"n", "_", "1">>, manifest_dir |-> <<"/", "u", "/", "n">>],
        test |-> [bin |-> <<"n", "_", "1", "_", "x">>]],
       [project |-> [name |-> <<"m", "_", "2">>, manifest_dir |-> <<"/", "v">>],
        test |-> [bin |-> <<"m", "_", "2", "_", "y">>]] >>

\* a log with the three strings left open: "HB" where the build target
\* stands, "HC" the crate name, "HD" the source directory; the rest of the
\* log is made of the separator of paths and of symbols that no string of a
\* host holds, so that the strings occur where the template has them
NormTemplates == SeqsUpTo({"HB", "HC", "HD", "E", "W", "F", "T", "a", "/", NL}, MaxLen)

\* the raw text of the template on a host
RECURSIVE Fill(_, _)
Fill(template, host) ==
    IF template = <<>> THEN <<>>
    ELSE (CASE Head(template) = "HB" -> host.test.bin
            [] Head(template) = "HC" -> host.project.name
            [] Head(template) = "HD" -> host.project.manifest_dir
            [] OTHER -> <<Head(template)>>) \o Fill(Tail(template), host)

\* the normalisations that replace the strings of the project
Normalizations == {"expand_stderr", "check_stderr", "test_stdout", "test_stderr",
                   "run_stderr"}

normalize(stream, input, project, test_case) ==
    CASE stream = "expand_stderr" -> expand_stderr(input, project, test_case)
      [] stream = "check_stderr" -> check_stderr(input, project, test_case)
      [] stream = "test_stdout" -> test_stdout(input, project, test_case)
      [] stream = "test_stderr" -> test_stderr(input, project, test_case)
      [] OTHER -> run_stderr(input, project, test_case)

InitNorm ==
    /\ tryexpandEnv = None
    /\ truncateEnv = None
    /\ keepEnv = None
    /\ target = EmptyArea
    /\ par = NoPar
    /\ asked = NoCall
    /\ files = <<>>
    /\ pc = "idle"
    /\ suite = NoSuite
    /\ idx = 0
    /\ failures = {}
    /\ command_errors = 0
    /\ panicMsg = None
    /\ last = NoTest
    /\ ran = <<>>
    /\ produced = {}
    /\ errored = {}
    /\ written = {}
    /\ faults = 0
    /\ runNo = 0
    /\ tool = <<>>
    /\ cmp \in {[op |-> "template", template |-> t] : t \in NormTemplates}

\* the log is normalized on both hosts
NormStep(stream) ==
    /\ cmp.op = "template"
    /\ cmp' = [op |-> stream, template |-> cmp.template,
               raw |-> [h \in 1..2 |-> Fill(cmp.template, Hosts[h])],
               out |-> [h \in 1..2 |-> normalize(stream, Fill(cmp.template, Hosts[h]),
                                                 Hosts[h].project, Hosts[h].test)]]
    /\ UNCHANGED <<env_vars, target, files, pc, suite, panicMsg, run_vars, par, asked>>

NormExpandStderr == NormStep("expand_stderr")
NormCheckStderr == NormStep("check_stderr")
NormTestStdout == NormStep("test_stdout")
NormTestStderr == NormStep("test_stderr")
NormRunStderr == NormStep("run_stderr")

NextNorm ==
    NormExpandStderr \/ NormCheckStderr \/ NormTestStdout \/ NormTestStderr \/ NormRunStderr

SpecNorm == InitNorm /\ [][NextNorm]_vars

\* the text holds the string
Contains(text, string) ==
    \E i \in 0..(Len(text) - Len(string)) : SubSeq(text, i + 1, i + Len(string)) = string

-----------------------------------------------------------------------------
(* Properties of a suite run                                               *)

\* the last Test::run read its source and found the evaluation of its
\* report different from the expectation of the plan
Mismatched(l) ==
    /\ IsSome(l.source)
    /\ evaluation(Unwrap(l.report)) # suite.plan.expectation

\* a step of try_run's loop: one more test was run
TestStep == ran' # ran

\* C1: when the evaluation of the report differs from the expectation,
\* Test::run emits exactly one UnexpectedSuccess / UnexpectedFailure outcome,
\* the test is counted as failed (it is in `failures`), and no snapshot file
\* is asked for, read, created or changed, under either behavior.
C1_MismatchIsFatal ==
    [][ (TestStep /\ Mismatched(last')) =>
          /\ Len(last'.emitted) = 1
          /\ last'.emitted[1].kind =
               (IF evaluation(Unwrap(last'.report)) = "Success"
                THEN "UnexpectedSuccess" ELSE "UnexpectedFailure")
          /\ last'.path \in failures'
          /\ last'.io = NoIo
          /\ files' = files ]_vars

\* C2: the post-action is run only after a primary action that evaluated to
\* Success; after a primary Failure it is not run, the report has no
\* post-action and evaluates to Failure; the evaluation of a report is the
\* conjunction of the evaluations of its actions.
C2_PostActionAfterSuccess ==
    last.path # <<>> =>
      /\ Len(last.commands) = 2 => last.primary = Some("Success")
      /\ last.primary = Some("Failure") =>
           /\ last.commands = <<suite.plan.action>>
           /\ IsSome(last.report)
           /\ IsNone(Unwrap(last.report).post_action)
           /\ evaluation(Unwrap(last.report)) = "Failure"
      /\ IsSome(last.report) =>
           LET report == Unwrap(last.report) IN
           (evaluation(report) = "Success") <=>
              /\ report.action.evaluation = "Success"
              /\ IsSome(report.post_action) =>
                   Unwrap(report.post_action).evaluation = "Success"

\* a suite with a post-action whose primary action failed: one command ran
C2_Witness ==
    /\ last.path # <<>>
    /\ IsSome(suite.plan.post_action)
    /\ last.primary = Some("Failure")
    /\ last.commands = <<"Expand">>

\* the behavior in effect is ExpectFiles: by the variable, or by skip_overwrite
ExpectOnlyInEffect ==
    \/ tryexpandEnv \in {None, Some(TRYEXPAND_ENV_VAL_EXPECT)}
    \/ suite.options.skip_overwrite

\* C4: while ExpectFiles is in effect a suite run writes no snapshot file;
\* an actual output without snapshot file gives SnapshotExpected, the test
\* is counted as failed and the file is not created.
C4_ExpectOnlyWritesNothing ==
    [][ (TestStep /\ ExpectOnlyInEffect) =>
          /\ files' = files
          /\ last'.io.writes = <<>>
          /\ (last'.compared /\ last'.res.ok) =>
               \A snaps \in {snapshots_of(last'.path, Unwrap(last'.report))} :
               \A i \in 1..Len(snaps) :
                 (IsSome(snaps[i][2]) /\ ~exists(files, snaps[i][1])) =>
                    /\ [kind |-> "SnapshotExpected", path |-> snaps[i][1]]
                          \in Range(last'.emitted)
                    /\ last'.path \in failures'
                    /\ ~exists(files', snaps[i][1]) ]_vars

\* C11: TestSuite::new panics with `no file patterns provided` when it is
\* given no pattern, and with `no matching files found for:` and the list
\* of exactly the patterns without match when some pattern matches no file
\* other than files ending in `out.rs`, whatever the other patterns match;
\* no project directory has been made by then and no test is run.
C11_PatternsRefused ==
    (runNo = 0 /\ pc # "idle") =>
      LET unmatched ==
            {pt \in Range(asked.patterns) :
               ~\E path \in DOMAIN files :
                  /\ GlobMatch(pt, path)
                  /\ ~(Len(path) >= 2 /\ path[Len(path) - 1] = "out"
                                      /\ path[Len(path)] = "rs")}
      IN  /\ asked.patterns = <<>> =>
               /\ pc = "panicked"
               /\ panicMsg = Some([kind |-> "no file patterns provided"])
               /\ target = EmptyArea /\ ran = <<>> /\ suite = NoSuite
          /\ unmatched # {} =>
               /\ pc = "panicked"
               /\ Unwrap(panicMsg).kind = "no matching files found for:"
               /\ Range(Unwrap(panicMsg).patterns) = unmatched
               /\ target = EmptyArea /\ ran = <<>> /\ suite = NoSuite

\* one pattern of two matched a source, the other nothing: the suite was
\* refused and the message lists the other
C11_Witness ==
    /\ pc = "panicked"
    /\ asked.patterns = << <<"a", "rs">>, <<"z", "rs">> >>
    /\ panicMsg = Some([kind |-> "no matching files found for:",
                        patterns |-> << <<"z", "rs">> >>])
    /\ target = EmptyArea

\* a suite run has come to its end
RunEnded == runNo >= 1 /\ pc \in {"passed", "panicked"}

\* the run ended with the panic of try_run that lists the failed tests
Aggregated == IsSome(panicMsg) /\ Unwrap(panicMsg).kind = "tests failed"

\* C8: a suite run ends in the panic that lists the failures iff some test
\* produced an outcome other than Match, Created, Updated; the message
\* counts k of n, and lists the paths of exactly those tests, each once, in
\* ascending order.
C8_FailureReport ==
    RunEnded =>
      /\ IsSome(panicMsg) <=> produced # {}
      /\ Aggregated <=> produced # {}
      /\ Aggregated =>
           LET m == Unwrap(panicMsg) IN
           /\ m.k = Cardinality(produced)
           /\ m.n = Len(suite.tests)
           /\ Range(m.paths) = produced
           /\ Len(m.paths) = Cardinality(produced)
           /\ \A i, j \in 1..Len(m.paths) : i < j => PathLess(m.paths[i], m.paths[j])

\* C20: the renderer only observes: for every outcome and every value of
\* the variables, TRYEXPAND_TRUNCATE_OUTPUT with a value that is not
\* recognized included, no run dies of a panic raised while an outcome or a
\* command failure is rendered, and the tests counted as failed are those
\* that produced a failing outcome, whatever was rendered.
C20_RendererObservational ==
    /\ ~(/\ IsSome(panicMsg)
         /\ Unwrap(panicMsg).kind = "unwrap"
         /\ Unwrap(panicMsg).error.key = "TRYEXPAND_TRUNCATE_OUTPUT")
    /\ pc \in {"running", "passed", "panicked"} => failures = produced

\* C9: a suite run in which a test ended in a command error ends in the
\* panic that lists the failures, with the path of that test in the list;
\* it does not end as passed.
C9_CommandErrorIsFatal ==
    (RunEnded /\ errored # {}) =>
      /\ pc # "passed"
      /\ Aggregated
      /\ errored \subseteq Range(Unwrap(panicMsg).paths)

\* C10: the suite is built with ExpectFiles when TRYEXPAND is unset or
\* `expect`, with OverwriteFiles when it is `overwrite`; with another value
\* no suite is built: construction panics, with the unrecognized-value error
\* that carries the key and the value unless the patterns were refused or
\* the Project could not be made first, and no test is run and no snapshot
\* read or written.
C10_BehaviorFromEnv ==
    /\ suite # NoSuite =>
         \/ /\ tryexpandEnv \in {None, Some("expect")}
            /\ suite.plan.behavior = "ExpectFiles"
         \/ /\ tryexpandEnv = Some("overwrite")
            /\ suite.plan.behavior = "OverwriteFiles"
    /\ (pc # "idle" /\ tryexpandEnv \notin {None, Some("expect"), Some("overwrite")}) =>
         /\ pc = "panicked"
         /\ suite = NoSuite
         /\ Unwrap(panicMsg).kind \in
              {"unwrap", "no file patterns provided", "no matching files found for:",
               "Could not create test project"}
         /\ Unwrap(panicMsg).kind = "unwrap" =>
              Unwrap(panicMsg).error =
                 [error |-> "UnrecognizedEnv", key |-> "TRYEXPAND",
                  value |-> Unwrap(tryexpandEnv)]
         /\ ran = <<>> /\ last = NoTest /\ written = {}

\* construction died of the unrecognized value of TRYEXPAND
C10_Witness ==
    /\ pc = "panicked"
    /\ tryexpandEnv = Some("Overwrite")
    /\ panicMsg = Some(unwrap_panic([error |-> "UnrecognizedEnv", key |-> "TRYEXPAND",
                                     value |-> "Overwrite"]))
    /\ runNo = 0

\* C6: under OverwriteFiles, when the suite is run a second time on the
\* disk the first run left, with the same outputs of the tool and no
\* failure of the system, the second run writes no file and reports no
\* SnapshotCreated or SnapshotUpdated, and none of its tests is a snapshot
\* file that the first run wrote.
C6_SecondRunWritesNothing ==
    (runNo = 2 /\ faults = 0 /\ suite # NoSuite /\ ~suite.options.skip_overwrite) =>
      /\ Range(suite.tests) \cap written = {}
      /\ last.path # <<>> =>
           /\ last.io.writes = <<>>
           /\ \A i \in 1..Len(last.emitted) :
                last.emitted[i].kind \notin {"SnapshotCreated", "SnapshotUpdated"}

-----------------------------------------------------------------------------
(* message.rs: the diff of a Mismatch or an Updated outcome.  A printed     *)
(* line is [kind |-> "line", sign, line], an elision marker is              *)
(* [kind |-> "omitted", sign, count].                                       *)

MAX_BLOCK_LINES == 100

\* usize::MAX, at the width of the integers of TLC: larger than any number
\* of lines
USIZE_MAX == 2147483647

Max(a, b) == IF a >= b THEN a ELSE b

div_ceil(a, b) == (a + b - 1) \div b

\* lines_bounded: (prefix, infix_len, suffix)
lines_bounded(lines, max_lines) ==
    IF Len(lines) <= max_lines \/ max_lines = USIZE_MAX
    THEN [prefix |-> lines, infix_len |-> 0, suffix |-> None]
    ELSE LET split_index == div_ceil(max_lines, 2)
             infix_len == Len(lines) - max_lines
         IN  [prefix |-> SubSeq(lines, 1, split_index),
              infix_len |-> infix_len,
              suffix |-> Some(SubSeq(lines, split_index + infix_len + 1, Len(lines)))]

\* DiffRunsIterator: next() takes the results at the front that are of one
\* kind, as one run
RunEnd(diff_lines) ==
    The({ IF breaks = {} THEN Len(diff_lines)
          ELSE (CHOOSE p \in breaks : \A q \in breaks : p <= q) - 1
          : breaks \in {{p \in 1..Len(diff_lines) :
                            diff_lines[p].kind # diff_lines[1].kind}} })

RECURSIVE diff_runs(_)
diff_runs(diff_lines) ==
    IF diff_lines = <<>> THEN <<>>
    ELSE The({ <<[kind |-> diff_lines[1].kind,
                  lines |-> [j \in 1..n |-> diff_lines[j].line]]>>
               \o diff_runs(SubSeq(diff_lines, n + 1, Len(diff_lines)))
               : n \in {RunEnd(diff_lines)} })

sign_of(kind) ==
    CASE kind = "Left" -> "-"
      [] kind = "Both" -> " "
      [] OTHER -> "+"

\* one arm of the match of print_diff_bounded: the run, bounded
print_run(diff_run, max_lines_per_run) ==
    The({ [i \in 1..Len(b.prefix) |->
              [kind |-> "line", sign |-> sign_of(diff_run.kind), line |-> b.prefix[i]]]
          \o (IF IsSome(b.suffix)
              THEN <<[kind |-> "omitted", sign |-> sign_of(diff_run.kind),
                      count |-> b.infix_len]>>
                   \o [i \in 1..Len(Unwrap(b.suffix)) |->
                         [kind |-> "line", sign |-> sign_of(diff_run.kind),
                          line |-> Unwrap(b.suffix)[i]]]
              ELSE <<>>)
          : b \in {lines_bounded(diff_run.lines, max_lines_per_run)} })

RECURSIVE print_runs(_, _)
print_runs(runs, max_lines_per_run) ==
    IF runs = <<>> THEN <<>>
    ELSE print_run(Head(runs), max_lines_per_run)
         \o print_runs(Tail(runs), max_lines_per_run)

\* print_diff_bounded, of the result of diff::lines(before, after)
print_diff_bounded(diff_lines, max_lines, num_context_lines) ==
    IF Len(diff_lines) = 0 THEN <<>>
    ELSE The({ print_runs(runs, Max(max_lines \div Len(runs), 2 * num_context_lines))
               : runs \in {diff_runs(diff_lines)} })

\* print_diff: should_truncate_output().unwrap()
print_diff(env, diff_lines, num_context_lines) ==
    The({ IF r.ok
          THEN Ok(print_diff_bounded(diff_lines,
                                     IF r.val THEN MAX_BLOCK_LINES ELSE USIZE_MAX,
                                     num_context_lines))
          ELSE r
          : r \in {should_truncate_output(env)} })

print_snapshot_diff(env, diff_lines) == print_diff(env, diff_lines, 2)

\* snapshot_mismatch: the heading, the diff, the hint
snapshot_mismatch(env, diff_lines) ==
    The({ IF d.ok
          THEN Ok(<<[kind |-> "MISMATCH"]>> \o d.val \o <<[kind |-> "hint"]>>)
          ELSE d
          : d \in {print_snapshot_diff(env, diff_lines)} })

\* snapshot_updated: the heading, the diff
snapshot_updated(env, diff_lines) ==
    The({ IF d.ok THEN Ok(<<[kind |-> "updated"]>> \o d.val) ELSE d
          : d \in {print_snapshot_diff(env, diff_lines)} })

\* The pairs of texts of the harness.  A pair is a row of blocks of lines:
\* block i is common to both texts (i % 3 = 1), only in the text before
\* (i % 3 = 2) or only in the text after (i % 3 = 0); no line occurs twice,
\* so diff::lines yields the blocks in this order.  Every block has `len`
\* lines but block `at`, which has `long` lines.  There are two blocks at
\* least: the texts differ.

\* the largest number of blocks
MaxRuns == 26

DiffShapes ==
    {[runs |-> n, len |-> l, at |-> a, long |-> k] :
        n \in 2..MaxRuns, l \in {1, 4}, a \in 0..2, k \in {5, 60, 101}}

RunKind(i) ==
    CASE i % 3 = 1 -> "Both"
      [] i % 3 = 2 -> "Left"
      [] OTHER -> "Right"

RunLen(shape, i) == IF i = shape.at THEN shape.long ELSE shape.len

\* diff::lines(before, after) of the pair: line j of block i is <<i, j>>
RECURSIVE DiffLinesFrom(_, _)
DiffLinesFrom(shape, i) ==
    IF i > shape.runs THEN <<>>
    ELSE [j \in 1..RunLen(shape, i) |-> [kind |-> RunKind(i), line |-> <<i, j>>]]
         \o DiffLinesFrom(shape, i + 1)

DiffLines(shape) == DiffLinesFrom(shape, 1)

DiffTruncateValues == {None, Some("0"), Some("maybe")}

InitDiff ==
    /\ tryexpandEnv = None
    /\ truncateEnv \in DiffTruncateValues
    /\ keepEnv = None
    /\ target = EmptyArea
    /\ par = NoPar
    /\ asked = NoCall
    /\ files = <<>>
    /\ pc = "idle"
    /\ suite = NoSuite
    /\ idx = 0
    /\ failures = {}
    /\ command_errors = 0
    /\ panicMsg = None
    /\ last = NoTest
    /\ ran = <<>>
    /\ produced = {}
    /\ errored = {}
    /\ written = {}
    /\ faults = 0
    /\ runNo = 0
    /\ tool = <<>>
    /\ cmp \in {[op |-> "texts", shape |-> s] : s \in DiffShapes}

DiffStep(op, printed) ==
    /\ cmp' = [op |-> op, shape |-> cmp.shape,
               out |-> IF printed.ok THEN printed.val ELSE <<>>]
    /\ panicMsg' = IF printed.ok THEN None ELSE Some(printed.err)
    /\ UNCHANGED <<env_vars, target, files, pc, suite, run_vars, par, asked>>

\* the observer reports SnapshotMismatch
DiffMismatch ==
    /\ cmp.op = "texts"
    /\ \E printed \in {snapshot_mismatch(truncateEnv, DiffLines(cmp.shape))} :
         DiffStep("mismatch", printed)

\* the observer reports SnapshotUpdated
DiffUpdated ==
    /\ cmp.op = "texts"
    /\ \E printed \in {snapshot_updated(truncateEnv, DiffLines(cmp.shape))} :
         DiffStep("updated", printed)

NextDiff == DiffMismatch \/ DiffUpdated

SpecDiff == InitDiff /\ [][NextDiff]_vars

\* a diff was printed with the truncation of the output enabled
DiffTruncated ==
    /\ cmp.op \in {"mismatch", "updated"}
    /\ IsNone(panicMsg)
    /\ truncateEnv = None

ContentLines(out) == {p \in 1..Len(out) : out[p].kind = "line"}

\* C21: with the truncation of the output enabled, the diff of two texts
\* displays at most MAX_BLOCK_LINES content lines in total, the elision
\* markers aside, whatever the number of the runs and their lengths.
C21_DiffWithinBlock ==
    DiffTruncated => Cardinality(ContentLines(cmp.out)) <= MAX_BLOCK_LINES

\* the lines of run i that the diff displays
Displayed(out, i) == {out[p].line[2] : p \in {q \in ContentLines(out) : out[q].line[1] = i}}

\* run i has one elision marker after its leading lines, and its count is `n`
Elided(out, i, n) ==
    \E p \in 2..Len(out) :
        /\ out[p].kind = "omitted"
        /\ out[p].count = n
        /\ out[p - 1].kind = "line"
        /\ out[p - 1].line[1] = i

\* C22: in the diff of a Mismatch or Updated outcome, every run of unchanged
\* lines longer than twice the context window (2) is displayed as at most 2
\* lines at its start and at most 2 lines at its end, the middle replaced by
\* one elision marker whose count is the number of the omitted lines.
C22_UnchangedRunsElided ==
    DiffTruncated =>
        \A i \in 1..cmp.shape.runs :
            (RunKind(i) = "Both" /\ RunLen(cmp.shape, i) > 2 * 2) =>
                /\ Displayed(cmp.out, i) \subseteq
                       (1..2) \cup ((RunLen(cmp.shape, i) - 1)..RunLen(cmp.shape, i))
                /\ Elided(cmp.out, i,
                          RunLen(cmp.shape, i) - Cardinality(Displayed(cmp.out, i)))

-----------------------------------------------------------------------------
(* Test::run alone: one test of a suite of any plan, on any short output of *)
(* the processes and any snapshot files                                     *)

\* the plans of the suites: a post-action only after Expand
TestPlans ==
    {[action |-> a, post_action |-> p, behavior |-> b, expectation |-> e] :
        a \in Action, p \in {None} \cup {Some(x) : x \in PostAction},
        b \in TestBehavior, e \in TestStatus}
    \ {plan \in [action : Action, post_action : {Some(x) : x \in PostAction},
                 behavior : TestBehavior, expectation : TestStatus] :
         plan.action # "Expand"}

\* the process of the primary action: it prints the line "a" or nothing, and
\* logs nothing, an error or a warning
TestIos ==
    {[spawned |-> TRUE, status |-> code, stdout |-> out, stderr |-> err] :
        code \in ExitCodes, out \in {<<>>, <<"a", NL>>},
        err \in {<<>>, <<"E", "a", NL>>, <<"W", NL>>}}

\* the process of the post-action
TestPostIos ==
    {[spawned |-> TRUE, status |-> code, stdout |-> <<"a", NL>>, stderr |-> err] :
        code \in ExitCodes, err \in {<<>>, <<"E", "a", NL>>}}

\* the source a.rs and, next to it, any of its snapshot files with the line "a"
TestDisks ==
    UNION {DisksWith(present) :
             present \in SUBSET {with_extension(SourceA, sfx) :
                                   sfx \in {OUT_RS_FILE_SUFFIX, OUT_TXT_FILE_SUFFIX,
                                            ERR_TXT_FILE_SUFFIX}}}

InitTest ==
    /\ tryexpandEnv = None
    /\ truncateEnv = None
    /\ keepEnv = None
    /\ target = EmptyArea
    /\ par = NoPar
    /\ asked = NoCall
    /\ files \in {d \in TestDisks : \A q \in DOMAIN d : q = SourceA \/ d[q] # <<>>}
    /\ pc = "idle"
    /\ suite \in {[tests |-> <<SourceA>>, plan |-> plan,
                   options |-> [skip_overwrite |-> FALSE]] : plan \in TestPlans}
    /\ idx = 0
    /\ failures = {}
    /\ command_errors = 0
    /\ panicMsg = None
    /\ last = NoTest
    /\ ran = <<>>
    /\ produced = {}
    /\ errored = {}
    /\ written = {}
    /\ faults = 0
    /\ runNo = 0
    /\ tool = <<>>
    /\ cmp \in {[op |-> "process", io |-> io, post_io |-> post] :
                  io \in TestIos, post \in TestPostIos}

\* the observer of try_run is handed to Test::run for the test a.rs
TestOnce ==
    /\ cmp.op = "process"
    /\ \E r \in {TestRun(SourceA, suite.plan, suite.options,
                         [action |-> cmp.io, post_action |-> cmp.post_io], "none", files,
                         [failures |-> failures, emitted |-> <<>>, panic |-> None],
                         truncateEnv)} :
         /\ files' = r.files
         /\ failures' = r.obs.failures
         /\ last' = [path |-> SourceA, fault |-> "none",
                     returned |-> IsNone(r.obs.panic), res |-> r.res,
                     report |-> r.report, source |-> r.source,
                     primary |-> r.primary, commands |-> r.commands,
                     compared |-> r.compared, io |-> r.io,
                     emitted |-> r.obs.emitted]
         /\ ran' = Append(ran, SourceA)
         /\ written' = written \cup Range(r.io.writes)
         /\ cmp' = [cmp EXCEPT !.op = "done"]
    /\ UNCHANGED <<env_vars, target, pc, suite, panicMsg, idx, command_errors, produced,
                   errored, faults, runNo, tool, par, asked>>

NextTest == TestOnce

SpecTest == InitTest /\ [][NextTest]_vars

-----------------------------------------------------------------------------
(* Properties of the snapshots of one test (test.rs)                         *)

\* the test that was run last: the primary action evaluated to Failure, as
\* the suite expects, and the normalization of its stderr gave None
FailedWithoutStderr ==
    /\ last # NoTest
    /\ last.compared
    /\ Unwrap(last.report).action.evaluation = "Failure"
    /\ IsNone(Unwrap(last.report).action.stderr)

\* C23: when the primary action evaluated to Failure as expected and the
\* normalization of its stderr yields absent, the comparator raises an
\* internal error for that test: the pair is neither a Match (ExpectFiles)
\* nor a silent no-op (OverwriteFiles).
C23_AbsentFailureStreamIsError ==
    FailedWithoutStderr => ~last.res.ok

\* the test run in this step is one of a suite made by expand(..) alone: the
\* expansion succeeded and gave a text, and a.out.rs was not on the disk
ExpandedWithoutSnapshot ==
    /\ TestStep
    /\ suite.plan.action = "Expand"
    /\ IsNone(suite.plan.post_action)
    /\ suite.plan.expectation = "Success"
    /\ last'.compared
    /\ Unwrap(last'.report).action.evaluation = "Success"
    /\ IsSome(Unwrap(last'.report).action.stdout)
    /\ ~exists(files, with_extension(last'.path, OUT_RS_FILE_SUFFIX))

\* C24: calling expand on a test whose expansion succeeds and that has no
\* snapshot file creates the snapshot file with the result of the expansion
\* in it, whether or not the overwrite mode is set, and the test does not
\* fail.
C24_ExpandCreatesSnapshot ==
    [][ ExpandedWithoutSnapshot =>
          /\ with_extension(last'.path, OUT_RS_FILE_SUFFIX) \in DOMAIN files'
          /\ files'[with_extension(last'.path, OUT_RS_FILE_SUFFIX)]
                = as_bytes(Unwrap(Unwrap(last'.report).action.stdout))
          /\ last'.path \notin failures' ]_vars

-----------------------------------------------------------------------------
(* The arguments of the commands: options.rs, TestSuite::args, cargo.rs    *)

\* Options::args
Options_args(options, args) == [options EXCEPT !.args = args]

\* TestSuite::args, on the options of the suite
TestSuite_args(options, args) == [options EXCEPT !.args = @ \o args]

\* TestSuite::arg
TestSuite_arg(options, arg) == TestSuite_args(options, <<arg>>)

\* the arguments that expand, check, test and run give to cargo themselves
action_args(action, bin) ==
    CASE action = "Expand" -> <<"expand", "--bin", bin, "--theme", "none">>
      [] action = "Check" -> <<"check", "--bin", bin, "--color", "never">>
      [] action = "Test" -> <<"test", "--bin", bin, "--color", "never", "--quiet">>
      [] OTHER -> <<"run", "--bin", bin, "--color", "never", "--quiet">>

\* run_cargo_command: cargo.args(&options.args) on the command of the action
command_args(action, bin, options) == action_args(action, bin) \o options.args

\* the largest number of calls that configure arguments on one value
MaxCalls == 2

ArgLists == {<<"x">>, <<"y">>, <<"x", "y">>}

InitArgs ==
    /\ tryexpandEnv = None
    /\ truncateEnv = None
    /\ keepEnv = None
    /\ target = EmptyArea
    /\ par = NoPar
    /\ asked = NoCall
    /\ files = <<>>
    /\ pc = "idle"
    /\ suite = NoSuite
    /\ idx = 0
    /\ failures = {}
    /\ command_errors = 0
    /\ panicMsg = None
    /\ last = NoTest
    /\ ran = <<>>
    /\ produced = {}
    /\ errored = {}
    /\ written = {}
    /\ faults = 0
    /\ runNo = 0
    /\ tool = <<>>
    /\ cmp \in {[op |-> "configuring", on |-> on, options |-> [args |-> <<>>],
                 given |-> <<>>] : on \in {"suite", "options"}}

ArgsStep(next) ==
    /\ cmp' = next
    /\ UNCHANGED <<env_vars, target, files, pc, suite, panicMsg, run_vars, par, asked>>

\* .args(..) on a suite
ArgsOnSuite ==
    /\ cmp.op = "configuring" /\ cmp.on = "suite" /\ Len(cmp.given) < MaxCalls
    /\ \E args \in ArgLists :
         ArgsStep([cmp EXCEPT !.options = TestSuite_args(@, args),
                              !.given = Append(@, args)])

\* .arg(..) on a suite
ArgOnSuite ==
    /\ cmp.op = "configuring" /\ cmp.on = "suite" /\ Len(cmp.given) < MaxCalls
    /\ \E arg \in {"z"} :
         ArgsStep([cmp EXCEPT !.options = TestSuite_arg(@, arg),
                              !.given = Append(@, <<arg>>)])

\* .args(..) on an Options value
ArgsOnOptions ==
    /\ cmp.op = "configuring" /\ cmp.on = "options" /\ Len(cmp.given) < MaxCalls
    /\ \E args \in ArgLists :
         ArgsStep([cmp EXCEPT !.options = Options_args(@, args),
                              !.given = Append(@, args)])

\* a command of the suite is run with the options
ArgsInvoke ==
    /\ cmp.op = "configuring"
    /\ \E action \in Action :
         ArgsStep([op |-> "invoked", on |-> cmp.on, options |-> cmp.options,
                   given |-> cmp.given, action |-> action,
                   argv |-> command_args(action, HostTest.bin, cmp.options)])

NextArgs == ArgsOnSuite \/ ArgOnSuite \/ ArgsOnOptions \/ ArgsInvoke

SpecArgs == InitArgs /\ [][NextArgs]_vars

RECURSIVE Flatten(_)
Flatten(lists) == IF lists = <<>> THEN <<>> ELSE Head(lists) \o Flatten(Tail(lists))

\* C25: the configuration of arguments appends: after the arguments A and
\* then the arguments B were configured on one suite or one Options value,
\* every invocation of the external tool receives all of A followed by all
\* of B after the fixed arguments of the action; no call discards the
\* arguments of an earlier one.
C25_ArgsAppend ==
    cmp.op = "invoked" =>
        cmp.argv = action_args(cmp.action, HostTest.bin) \o Flatten(cmp.given)

\* the outcomes that the loop of evaluate_snapshots pushes for the test of
\* this step, from the disk as it was before the step
OutcomesOfStep ==
    SnapshotLoop(snapshots_of(last'.path, Unwrap(last'.report)),
                 IF suite.options.skip_overwrite THEN "ExpectFiles"
                 ELSE suite.plan.behavior,
                 last'.fault,
                 [files |-> files, outcomes |-> <<>>, probed |-> <<>>,
                  reads |-> <<>>, writes |-> <<>>, err |-> None]).outcomes

\* C26: every outcome that the comparator produces for a stream of a test
\* (SnapshotMatch, SnapshotMismatch, SnapshotExpected, SnapshotUnexpected,
\* SnapshotCreated, SnapshotUpdated) is handed to the observer, the
\* successful outcomes of a test with a failing outcome too.
C26_EveryOutcomeForwarded ==
    [][ (TestStep /\ last'.compared) =>
          \A outcomes \in {OutcomesOfStep} :
            \A i \in 1..Len(outcomes) : outcomes[i] \in Range(last'.emitted) ]_vars

-----------------------------------------------------------------------------
(* Properties of the loop of try_run                                        *)

\* C27: within one suite run the tests are run one after another in
\* ascending order of their paths, every test exactly once: no failing
\* outcome and no command error of a test keeps a later test from being
\* run, and the abort notice is only printed once the command errors are
\* more than max_errors.
C27_EveryTestOnceInOrder ==
    /\ \A i \in 1..Len(ran) : i <= Len(suite.tests) /\ ran[i] = suite.tests[i]
    /\ \A i, j \in 1..Len(suite.tests) :
         i < j => PathLess(suite.tests[i], suite.tests[j])
    /\ (RunEnded /\ suite # NoSuite) => ran = suite.tests
    /\ (last # NoTest /\ last.abortion) => command_errors > max_errors

-----------------------------------------------------------------------------
(* The two behaviors of the comparator on one pair                          *)

\* what ExpectFiles answers for the pair that the harness gave to
\* OverwriteFiles
ExpectingAnswer ==
    Unwrap(evaluate_snapshot_expecting_files(cmp.expected, cmp.actual, CmpPath,
                                             cmp.before, "none").res.val).kind

\* C28: both behaviors use one notion of equality: for an actual text and a
\* snapshot text that are both present, OverwriteFiles rewrites the file
\* and reports SnapshotUpdated exactly when ExpectFiles reports
\* SnapshotMismatch, and leaves the file untouched exactly when ExpectFiles
\* reports SnapshotMatch.
C28_SameEquality ==
    (/\ cmp.op = "overwriting"
     /\ IsNone(cmp.err)
     /\ IsSome(cmp.actual)
     /\ IsSome(cmp.expected))
    => /\ (CmpOutcome = Some("SnapshotUpdated") /\ cmp.writes = <<CmpPath>>)
            <=> ExpectingAnswer = "SnapshotMismatch"
       /\ (CmpOutcome = None /\ files = cmp.before)
            <=> ExpectingAnswer = "SnapshotMatch"

\* C29: for every action, post-action and evaluation, the snapshots that
\* process_snapshots builds for one test hold each snapshot path at most
\* once: each snapshot file is compared at most once, and at most one
\* outcome for a snapshot file is reported for the test.
C29_SnapshotPathsOnce ==
    (last # NoTest /\ last.compared) =>
        /\ \A snaps \in {snapshots_of(last.path, Unwrap(last.report))} :
             \A i, j \in 1..Len(snaps) : snaps[i][1] = snaps[j][1] => i = j
        /\ \A i, j \in 1..Len(last.io.probed) :
             last.io.probed[i] = last.io.probed[j] => i = j
        /\ \A i, j \in 1..Len(last.emitted) :
             last.emitted[i].path = last.emitted[j].path => i = j

-----------------------------------------------------------------------------
(* Properties of the builders (test_suite.rs)                               *)

\* C30: in every suite that the builders make, a post-action is only set
\* when the primary action is Expand, it is Check, Test or Run and never
\* Expand, and once it is set it stays: a second and_check / and_run /
\* and_run_tests panics and replaces nothing.  So the two assertions at the
\* start of process_snapshots hold for every report.
C30_PostActionOnlyAfterExpand ==
    [][ /\ (suite' # NoSuite /\ IsSome(suite'.plan.post_action)) =>
             /\ suite'.plan.action = "Expand"
             /\ Unwrap(suite'.plan.post_action) \in PostAction
             /\ Unwrap(suite'.plan.post_action) # "Expand"
             /\ \A again \in PostAction : ~and_post_check(suite', again).ok
             /\ (suite # NoSuite /\ IsSome(suite.plan.post_action)) =>
                  suite'.plan.post_action = suite.plan.post_action
        /\ (last' # NoTest /\ IsSome(last'.report)
              /\ IsSome(Unwrap(last'.report).post_action)) =>
             /\ Unwrap(Unwrap(last'.report).post_action).kind # "Expand"
             /\ Unwrap(last'.report).action.kind = "Expand" ]_vars

\* the snapshots of a test were processed with a post-action in the report
C30_Witness ==
    /\ last # NoTest
    /\ last.compared
    /\ IsSome(Unwrap(last.report).post_action)
    /\ suite.plan.post_action = Some("Run")

====
